---------------------------- MODULE Spec2Model ----------------------------
(***************************************************************************)
(* A model of the AdsenseAI campaign risk analyzer (src/app).              *)
(*                                                                         *)
(* Numbers.  The code computes with floats and rounds what it reports to   *)
(* two decimals (polarity and subjectivity to three).  The model keeps     *)
(* every 0-100 score and the intent score in HUNDREDTHS of a point (70     *)
(* points is 7000), polarity and subjectivity in THOUSANDTHS (-0.3 is      *)
(* -300), computes each formula exactly over the rationals (as integers    *)
(* over a common denominator) and rounds where the code rounds, as         *)
(* Python's round does (halves to the even neighbour).  The error of the   *)
(* binary floats is not modelled.                                          *)
(*                                                                         *)
(* Text.  A text is a sequence of tokens (words or phrases); `kw in text`  *)
(* of the code is Contains(text, kw), decided by the table Within that     *)
(* lists the keywords occurring inside each token as substrings.           *)
(***************************************************************************)
EXTENDS Integers, Sequences, FiniteSets, TLC

VARIABLES
    sentiment_cache,   \* TextAnalyzer._sentiment_cache : key -> sentiment
    emotion_cache,     \* TextAnalyzer._emotion_cache   : key -> emotions
    response_cache,    \* main.response_cache           : key -> response
    image_analyzer,    \* main.image_analyzer is set (GEMINI_API_KEY present)
    data_loader,       \* DataLoader: the three datasets it has loaded
    last               \* the last call: [op, in, out]

vars == <<sentiment_cache, emotion_cache, response_cache, image_analyzer, data_loader, last>>

---------------------------------------------------------------------------
(* Bounds of the model *)

\* longest text (in tokens) given to the analyzers called on their own
MaxTextLen == 3
\* longest alert list given to the functions called on their own
MaxAlerts == 2
\* most rows of a dataset file given to the loaders
MaxRows == 2

---------------------------------------------------------------------------
(* Arithmetic helpers *)

Min(a, b) == IF a <= b THEN a ELSE b
Max(a, b) == IF a >= b THEN a ELSE b
Abs(a) == IF a < 0 THEN -a ELSE a

\* round(n / d), d > 0: the nearest integer, a half going to the even one
PyRound(n, d) ==
    LET q == n \div d
        r == n % d
    IN  IF 2 * r > d \/ (2 * r = d /\ q % 2 = 1) THEN q + 1 ELSE q

\* int(x) of a non-negative rational n / d
TruncDiv(n, d) == n \div d

RECURSIVE SumSeq(_)
SumSeq(s) == IF s = <<>> THEN 0 ELSE Head(s) + SumSeq(Tail(s))

SeqsUpTo(S, n) == UNION {[1..k -> S] : k \in 0..n}

EmptyMap == [k \in {} |-> 0]

---------------------------------------------------------------------------
(* Text *)

\* the keywords of the analyzers' lists (and of the festival calendar) that
\* occur in a token as substrings of its lower-cased form
Within(tok) ==
    CASE tok = "great"     -> {"great"}
      [] tok = "beautiful" -> {"beautiful"}
      [] tok = "dark skin" -> {"dark skin"}
      [] tok = "fair skin" -> {"fair", "fair skin"}
      [] tok = "problem"   -> {"problem"}
      [] tok = "serum"     -> {"serum"}
      [] tok = "something" -> {"some", "something", "thin", "thing"}
      [] tok = "body"      -> {"body"}
      [] tok = "transform" -> {"transform"}
      [] tok = "proud"     -> {"proud"}
      [] tok = "alcohol"   -> {"alcohol"}
      [] tok = "ugly"      -> {"ugly"}
      [] tok = "Instagram" -> {"ram"}
      [] OTHER             -> {}

\* the keywords of the moral lists and of the trigger table that a token
\* holds between word boundaries (the regex \bkeyword\b)
WordMatch(tok) ==
    CASE tok = "dark skin" -> {"dark skin"}
      [] tok = "fair skin" -> {"fair", "fair skin"}
      [] tok = "transform" -> {"transform"}
      [] tok = "alcohol"   -> {"alcohol"}
      [] tok = "ugly"      -> {"ugly"}
      [] OTHER             -> {}

\* the number of blank-separated words of a token
Words(tok) ==
    CASE tok \in {"dark skin", "fair skin", "Image content"} -> 2
      [] tok = " " -> 0
      [] OTHER -> 1

\* `kw in text.lower()`: the empty string occurs in every text
Contains(text, kw) == kw = "" \/ \E i \in DOMAIN text : kw \in Within(text[i])

IsSpace(tok) == tok = " "

\* `not text or not text.strip()`
IsBlank(text) == \A i \in DOMAIN text : IsSpace(text[i])

\* re.search(r'\b' + keyword + r'\b', text.lower())
ContainsWord(text, kw) == \E i \in DOMAIN text : kw \in WordMatch(text[i])

\* the keywords of a list that occur in the text, within a word or as words
Found(text, keywords) == UNION {Within(text[i]) : i \in DOMAIN text} \cap keywords
FoundWords(text, keywords) == UNION {WordMatch(text[i]) : i \in DOMAIN text} \cap keywords

\* str.strip()
RECURSIVE Strip(_)
Strip(text) ==
    IF text = <<>> THEN <<>>
    ELSE IF IsSpace(Head(text)) THEN Strip(Tail(text))
    ELSE IF IsSpace(text[Len(text)]) THEN Strip(SubSeq(text, 1, Len(text) - 1))
    ELSE text

\* clean_text: blanks collapsed and stripped (the texts of the model hold no
\* URL, mention or hashtag)
CleanText(text) == SelectSeq(text, LAMBDA tok : ~IsSpace(tok))

\* len(text.split()): the tokens are set apart by blanks, except that the
\* delimiter "|" is written against its neighbours
WordCount(text) ==
    LET words == SumSeq([i \in DOMAIN text |-> Words(text[i])])
        glued == Cardinality({i \in 1..(Len(text) - 1) :
                     /\ ~IsSpace(text[i]) /\ ~IsSpace(text[i + 1])
                     /\ (text[i] = "|" \/ text[i + 1] = "|")})
    IN  words - glued

\* text.count(ch) for the characters "?" and "#", each a token of its own
CountChar(text, ch) == Cardinality({i \in DOMAIN text : text[i] = ch})

\* str.lower() on the severity and platform strings the model uses
Lower(s) ==
    CASE s = "Critical"  -> "critical"
      [] s = "High"      -> "high"
      [] s = "Instagram" -> "instagram"
      [] s = "YouTube"   -> "youtube"
      [] s = "TikTok"    -> "tiktok"
      [] s = "Twitter"   -> "twitter"
      [] s = "Facebook"  -> "facebook"
      [] s = "LinkedIn"  -> "linkedin"
      [] s = "TIKTOK"    -> "tiktok"
      [] s = "Backlash"  -> "backlash"
      [] s = "Success"   -> "success"
      [] s = "Mixed"     -> "mixed"
      [] OTHER           -> s

---------------------------------------------------------------------------
(* RecommendationEngine._determine_status *)

HasSeverity(cultural_alerts, sev) ==
    \E i \in DOMAIN cultural_alerts : Lower(cultural_alerts[i].severity) = sev

\* _determine_status with the go rules tried before the stop rules
DetermineStatusGoFirst(backlash_risk, cultural_alerts, perceived_intent, virality_score) ==
    LET has_critical_alerts == HasSeverity(cultural_alerts, "critical")
        has_high_alerts == HasSeverity(cultural_alerts, "high")
    IN  IF virality_score >= 7000 /\ backlash_risk < 2500
            THEN [status |-> "go", action |-> "Excellent - Post Now!"]
        ELSE IF virality_score >= 5500 /\ backlash_risk < 3500
            THEN [status |-> "go", action |-> "Good to Post"]
        ELSE IF backlash_risk >= 7000 \/ has_critical_alerts \/ perceived_intent < -5000
            THEN [status |-> "stop", action |-> "Do Not Post"]
        ELSE IF backlash_risk < 3500 /\ ~has_high_alerts
                /\ perceived_intent >= 2000 /\ Len(cultural_alerts) = 0
            THEN [status |-> "go", action |-> "Safe to Post"]
        ELSE [status |-> "caution", action |-> "Review Required"]

\* _determine_status with the caution rule for low virality with alerts
\* tried after the go rules
DetermineStatusLateCaution(backlash_risk, cultural_alerts, perceived_intent, virality_score) ==
    LET has_critical_alerts == HasSeverity(cultural_alerts, "critical")
        has_high_alerts == HasSeverity(cultural_alerts, "high")
    IN  IF backlash_risk >= 7000 \/ has_critical_alerts \/ perceived_intent < -5000
            THEN [status |-> "stop", action |-> "Do Not Post"]
        ELSE IF (3500 <= backlash_risk /\ backlash_risk < 7000) \/ has_high_alerts
                \/ (-5000 <= perceived_intent /\ perceived_intent < 2000)
            THEN [status |-> "caution", action |-> "Review Required"]
        ELSE IF virality_score >= 7000 /\ backlash_risk < 2500
            THEN [status |-> "go", action |-> "Excellent - Post Now!"]
        ELSE IF virality_score >= 5500 /\ backlash_risk < 3500
            THEN [status |-> "go", action |-> "Good to Post"]
        ELSE IF backlash_risk < 3500 /\ ~has_critical_alerts /\ ~has_high_alerts
            THEN [status |-> "go", action |-> "Safe to Post"]
        ELSE [status |-> "caution", action |-> "Review Required"]

\* _determine_status without the caution rule on the intent
DetermineStatusNoIntentCaution(backlash_risk, cultural_alerts, perceived_intent, virality_score) ==
    LET has_critical_alerts == HasSeverity(cultural_alerts, "critical")
        has_high_alerts == HasSeverity(cultural_alerts, "high")
    IN  IF backlash_risk >= 7000 \/ has_critical_alerts \/ perceived_intent < -5000
            THEN [status |-> "stop", action |-> "Do Not Post"]
        ELSE IF (3500 <= backlash_risk /\ backlash_risk < 7000) \/ has_high_alerts
                \/ (virality_score < 5500 /\ Len(cultural_alerts) > 0)
            THEN [status |-> "caution", action |-> "Review Required"]
        ELSE IF virality_score >= 7000 /\ backlash_risk < 2500
            THEN [status |-> "go", action |-> "Excellent - Post Now!"]
        ELSE IF virality_score >= 5500 /\ backlash_risk < 3500
            THEN [status |-> "go", action |-> "Good to Post"]
        ELSE IF backlash_risk < 3500 /\ ~has_critical_alerts /\ ~has_high_alerts
            THEN [status |-> "go", action |-> "Safe to Post"]
        ELSE [status |-> "caution", action |-> "Review Required"]

\* _determine_status with the last go rule asking for a backlash below 25
DetermineStatusNarrowSafe(backlash_risk, cultural_alerts, perceived_intent, virality_score) ==
    LET has_critical_alerts == HasSeverity(cultural_alerts, "critical")
        has_high_alerts == HasSeverity(cultural_alerts, "high")
    IN  IF backlash_risk >= 7000 \/ has_critical_alerts \/ perceived_intent < -5000
            THEN [status |-> "stop", action |-> "Do Not Post"]
        ELSE IF (3500 <= backlash_risk /\ backlash_risk < 7000) \/ has_high_alerts
                \/ (-5000 <= perceived_intent /\ perceived_intent < 2000)
                \/ (virality_score < 5500 /\ Len(cultural_alerts) > 0)
            THEN [status |-> "caution", action |-> "Review Required"]
        ELSE IF virality_score >= 7000 /\ backlash_risk < 2500
            THEN [status |-> "go", action |-> "Excellent - Post Now!"]
        ELSE IF virality_score >= 5500 /\ backlash_risk < 3500
            THEN [status |-> "go", action |-> "Good to Post"]
        ELSE IF backlash_risk < 2500 /\ ~has_critical_alerts /\ ~has_high_alerts
            THEN [status |-> "go", action |-> "Safe to Post"]
        ELSE [status |-> "caution", action |-> "Review Required"]

\* _determine_status: the first rule that matches decides
DetermineStatus(backlash_risk, cultural_alerts, perceived_intent, virality_score) ==
    LET has_critical_alerts == HasSeverity(cultural_alerts, "critical")
        has_high_alerts == HasSeverity(cultural_alerts, "high")
    IN  IF backlash_risk >= 7000
            THEN [status |-> "stop", action |-> "Do Not Post"]
        ELSE IF has_critical_alerts
            THEN [status |-> "stop", action |-> "Do Not Post"]
        ELSE IF perceived_intent < -5000
            THEN [status |-> "stop", action |-> "Do Not Post"]
        ELSE IF 3500 <= backlash_risk /\ backlash_risk < 7000
            THEN [status |-> "caution", action |-> "Review Required"]
        ELSE IF has_high_alerts
            THEN [status |-> "caution", action |-> "Review Required"]
        ELSE IF -5000 <= perceived_intent /\ perceived_intent < 2000
            THEN [status |-> "caution", action |-> "Review Required"]
        ELSE IF virality_score < 5500 /\ Len(cultural_alerts) > 0
            THEN [status |-> "caution", action |-> "Review Required"]
        ELSE IF virality_score >= 7000 /\ backlash_risk < 2500
            THEN [status |-> "go", action |-> "Excellent - Post Now!"]
        ELSE IF virality_score >= 5500 /\ backlash_risk < 3500
            THEN [status |-> "go", action |-> "Good to Post"]
        ELSE IF backlash_risk < 3500 /\ ~has_critical_alerts /\ ~has_high_alerts
            THEN [status |-> "go", action |-> "Safe to Post"]
        ELSE [status |-> "caution", action |-> "Review Required"]

---------------------------------------------------------------------------
(* TextAnalyzer: keyword tables *)

\* TextAnalyzer.emotion_keywords
emotion_keywords ==
    [joy |->
        {"happy", "happiness", "joy", "joyful", "delighted", "cheerful",
         "excited", "excitement", "celebrate", "celebration", "fun",
         "wonderful", "amazing", "fantastic", "great", "awesome", "smile",
         "laugh", "laughter", "blessed", "grateful"},
      nostalgia |->
        {"remember", "memories", "childhood", "nostalgia", "nostalgic",
         "old days", "throwback", "reminisce", "tradition", "traditional",
         "heritage", "roots", "classic", "vintage", "timeless",
         "golden days", "good old", "back then"},
      pride |->
        {"proud", "pride", "honor", "honour", "glory", "achievement",
         "success", "victory", "triumph", "excellence", "indian", "india",
         "nation", "national", "patriot", "patriotic", "heritage", "culture",
         "legacy", "dignity"},
      humor |->
        {"funny", "hilarious", "lol", "lmao", "haha", "hehe", "joke",
         "comedy", "comic", "laugh", "humor", "humour", "witty", "amusing",
         "entertaining", "fun", "playful"},
      anger |->
        {"angry", "anger", "furious", "rage", "mad", "outrage", "outraged",
         "frustrated", "frustration", "annoyed", "irritated", "hate",
         "hatred", "disgusted", "disgust", "offensive", "unacceptable",
         "wrong", "injustice", "unfair"},
      fear |->
        {"fear", "afraid", "scared", "worry", "worried", "anxious",
         "anxiety", "nervous", "concern", "concerned", "threat",
         "threatening", "danger", "dangerous", "risk", "risky", "unsafe",
         "insecure", "panic", "terrified", "miss out", "lose", "losing",
         "limited", "last chance", "running out"},
      inspiration |->
        {"inspire", "inspired", "inspiring", "inspiration", "motivate",
         "motivated", "motivating", "motivation", "empower", "empowering",
         "hope", "hopeful", "dream", "aspire", "ambition", "ambitious",
         "courage", "courageous", "brave", "strength", "strong", "believe",
         "faith", "determination", "determined"},
      urgency |->
        {"now", "today", "hurry", "quick", "quickly", "fast", "immediate",
         "immediately", "urgent", "asap", "limited time", "act now",
         "dont wait", "dont miss", "last chance", "ending soon", "expires",
         "deadline", "while supplies last", "limited offer", "flash sale",
         "time sensitive", "act fast", "before its gone", "only today"} ]

EmotionOrder ==
    <<"joy", "nostalgia", "pride", "humor", "anger", "fear", "inspiration",
      "urgency">>

\* TextAnalyzer.moral_keywords
moral_keywords ==
    [values |->
        {"value", "values", "principle", "principles", "ethics", "ethical",
         "moral", "morality", "virtue", "virtuous", "integrity", "honesty",
         "truth", "truthful", "authentic", "authenticity", "genuine"},
      duty |->
        {"duty", "responsibility", "obligation", "dharma", "karma", "should",
         "must", "ought", "deserve", "right thing", "commitment",
         "dedicated", "devotion", "loyal", "loyalty"},
      family |->
        {"family", "families", "parent", "parents", "mother", "father",
         "children", "son", "daughter", "brother", "sister", "home",
         "together", "unity", "bond", "relationship", "care", "caring",
         "love", "respect", "elder", "elders", "generation"},
      community |->
        {"community", "society", "social", "collective", "together", "unity",
         "united", "harmony", "peace", "cooperation", "neighbor",
         "neighbourhood", "village", "nation", "country", "people",
         "everyone", "all of us", "we", "our"},
      justice |->
        {"justice", "fair", "fairness", "equal", "equality", "equity",
         "right", "rights", "wrong", "injustice", "unfair", "deserve",
         "discrimination", "bias", "prejudice", "freedom", "liberty"},
      tradition |->
        {"tradition", "traditional", "culture", "cultural", "heritage",
         "custom", "ritual", "ceremony", "festival", "celebration",
         "ancient", "wisdom", "legacy", "roots", "ancestors", "sacred",
         "holy", "spiritual", "religious", "faith"},
      progress |->
        {"progress", "development", "growth", "future", "modern",
         "innovation", "change", "transform", "improve", "improvement",
         "better", "advancement", "forward", "evolve", "evolution"} ]

MoralOrder ==
    <<"values", "duty", "family", "community", "justice", "tradition",
      "progress">>

\* TextAnalyzer.MORAL_VIOLATIONS
MORAL_VIOLATIONS ==
    [dignity_violation |->
        [ keywords |-> {"dark skin", "fat", "ugly", "inferior", "worthless",
                       "disgusting", "gross", "shameful", "embarrassing"},
          contexts |-> {"problem", "issue", "fix", "change", "transform",
                       "solution", "cure", "treatment"},
          score |-> 30 ],
      discrimination_normalization |->
        [ keywords |-> {"employers prefer", "society wants", "everyone knows",
                       "people like", "nobody wants", "everyone prefers"},
          contexts |-> {"fair", "light", "white", "slim", "thin", "tall",
                       "beautiful", "attractive"},
          score |-> 35 ],
      victim_blaming |->
        [ keywords |-> {"your fault", "youre responsible", "you let",
                       "dont let", "because of you", "due to your",
                       "if only you"},
          contexts |-> {"job", "rejection", "marriage", "failure", "problem",
                       "issue", "struggle"},
          score |-> 40 ],
      stereotype_reinforcement |->
        [ keywords |-> {"real men", "real women", "good wife", "good husband",
                       "proper woman", "proper man", "like a man",
                       "like a woman"},
          contexts |-> {"should", "must", "need to", "have to", "supposed to",
                       "expected to"},
          score |-> 30 ] ]

abstract_keywords ==
    {"thing", "things", "something", "anything", "everything", "maybe",
     "perhaps", "possibly", "might", "could", "would", "some", "any", "many",
     "few", "several", "various", "kind of", "sort of", "type of", "like",
     "seems", "appears", "suggests", "implies", "indicates", "concept",
     "idea", "notion", "sense", "feeling", "essence", "nature", "quality",
     "aspect", "element", "generally", "usually", "often", "sometimes",
     "rarely", "basically", "essentially", "fundamentally", "somewhat",
     "rather", "quite", "fairly", "pretty", "best", "better", "great",
     "amazing", "incredible", "big", "huge", "massive", "enormous", "more",
     "most", "less", "least"}

open_ended_phrases ==
    {"what do you think", "how do you feel", "tell us", "share your",
     "let us know", "comment below", "your thoughts", "your opinion",
     "what if", "imagine", "consider", "think about", "wonder", "curious",
     "explore", "discover", "find out"}

metaphor_indicators ==
    {"like", "as if", "as though", "reminds", "symbolizes", "represents",
     "embodies", "reflects", "mirrors", "journey", "path", "bridge", "door",
     "window", "light", "darkness", "shadow", "wave", "storm", "seed",
     "root", "flower", "tree", "river", "ocean"}

---------------------------------------------------------------------------
(* TextAnalyzer: sentiment and emotions, with their caches *)

\* Stand-in for the lexicons of TextBlob and VADER, which are libraries
\* outside the repository: per token the TextBlob polarity and subjectivity
\* and the VADER valence, in thousandths.  TextBlob averages over the words
\* it knows; VADER adds the valences up and squashes the sum into [-1, 1]
\* (here: saturates).  Both are functions of the whole cleaned text.
Lexicon(tok) ==
    CASE tok = "great"     -> [known |-> TRUE, polarity |-> 800, subjectivity |-> 750, valence |-> 625]
      [] tok = "terrible"  -> [known |-> TRUE, polarity |-> -1000, subjectivity |-> 1000, valence |-> -477]
      [] tok = "beautiful" -> [known |-> TRUE, polarity |-> 850, subjectivity |-> 1000, valence |-> 599]
      [] tok = "dark skin" -> [known |-> TRUE, polarity |-> -150, subjectivity |-> 400, valence |-> 0]
      [] tok = "fair skin" -> [known |-> TRUE, polarity |-> 700, subjectivity |-> 900, valence |-> 318]
      [] tok = "problem"   -> [known |-> TRUE, polarity |-> 0, subjectivity |-> 0, valence |-> -402]
      [] tok = "proud"     -> [known |-> TRUE, polarity |-> 800, subjectivity |-> 1000, valence |-> 477]
      [] OTHER             -> [known |-> FALSE, polarity |-> 0, subjectivity |-> 0, valence |-> 0]

\* TextBlob(cleaned_text).sentiment and vader.polarity_scores(cleaned_text)
LibrarySentiment(text) ==
    LET known == SelectSeq(text, LAMBDA tok : Lexicon(tok).known)
        n == Len(known)
        valence == SumSeq([i \in DOMAIN known |-> Lexicon(known[i]).valence])
    IN  [ textblob_polarity |->
              IF n = 0 THEN 0
              ELSE PyRound(SumSeq([i \in DOMAIN known |-> Lexicon(known[i]).polarity]), n),
          textblob_subjectivity |->
              IF n = 0 THEN 0
              ELSE PyRound(SumSeq([i \in DOMAIN known |-> Lexicon(known[i]).subjectivity]), n),
          vader_compound |-> Max(-1000, Min(1000, valence)) ]

\* the result of analyze_sentiment for blank text
NeutralSentiment ==
    [polarity |-> 0, subjectivity |-> 0, label |-> "Neutral"]

\* analyze_sentiment past the cache: the value computed for the text
ComputeSentiment(text) ==
    LET lib == LibrarySentiment(CleanText(text))
        \* combined_polarity, in ten-thousandths
        combined == 4 * lib.textblob_polarity + 6 * lib.vader_compound
    IN  [ polarity |-> PyRound(combined, 10),
          subjectivity |-> lib.textblob_subjectivity,
          label |-> IF combined > 500 THEN "Positive"
                    ELSE IF combined < -500 THEN "Negative"
                    ELSE "Neutral" ]

\* text[:500], the part of a text the cache keys hash: the first
\* CacheKeyLen tokens (the hash is taken to be free of collisions)
CacheKeyLen == 2
CacheKey(text) == SubSeq(text, 1, Min(Len(text), CacheKeyLen))

\* _max_cache_size, scaled down with the texts
MaxCacheSize == 3

\* a store that makes room in a full cache by dropping an entry
CacheStoreEvicting(cache, key, value) ==
    LET kept == IF Cardinality(DOMAIN cache) < MaxCacheSize THEN DOMAIN cache
                ELSE DOMAIN cache \ {CHOOSE k \in DOMAIN cache : TRUE}
    IN  [k \in kept \cup {key} |-> IF k = key THEN value ELSE cache[k]]

\* a cache after storing value under key, unless it is full
CacheStore(cache, key, value) ==
    IF Cardinality(DOMAIN cache) < MaxCacheSize
    THEN [k \in DOMAIN cache \cup {key} |-> IF k = key THEN value ELSE cache[k]]
    ELSE cache

\* analyze_sentiment: the value returned and the cache it leaves
AnalyzeSentiment(text, cache) ==
    IF IsBlank(text) THEN [value |-> NeutralSentiment, cache |-> cache]
    ELSE LET cache_key == CacheKey(text)
         IN  IF cache_key \in DOMAIN cache
             THEN [value |-> cache[cache_key], cache |-> cache]
             ELSE [value |-> ComputeSentiment(text),
                   cache |-> CacheStore(cache, cache_key, ComputeSentiment(text))]

\* detect_emotions past the cache: the categories with a keyword in the text,
\* in the order of the dictionary
ComputeEmotions(text) ==
    SelectSeq(EmotionOrder,
              LAMBDA emotion : Found(text, emotion_keywords[emotion]) # {})

\* detect_emotions: the value returned and the cache it leaves
DetectEmotions(text, cache) ==
    IF IsBlank(text) THEN [value |-> <<>>, cache |-> cache]
    ELSE LET cache_key == CacheKey(text)
         IN  IF cache_key \in DOMAIN cache
             THEN [value |-> cache[cache_key], cache |-> cache]
             ELSE [value |-> ComputeEmotions(text),
                   cache |-> CacheStore(cache, cache_key, ComputeEmotions(text))]

---------------------------------------------------------------------------
(* TextAnalyzer: moral framing, EMC and NAM *)

\* category_weights of detect_moral_framing, in tenths
MoralCategoryWeight(category) ==
    CASE category = "family" -> 15
      [] category = "duty" -> 14
      [] category = "tradition" -> 13
      [] category = "community" -> 12
      [] category = "values" -> 11
      [] category = "justice" -> 10
      [] category = "progress" -> 9

\* detect_moral_framing
DetectMoralFraming(text) ==
    IF IsBlank(text)
    THEN [has_moral_framing |-> FALSE, moral_keyword_count |-> 0, alignment_score |-> 0]
    ELSE LET hits(category) == FoundWords(text, moral_keywords[category])
             detected_categories == SelectSeq(MoralOrder, LAMBDA c : hits(c) # {})
             total_keyword_count ==
                 SumSeq([i \in DOMAIN MoralOrder |-> Cardinality(hits(MoralOrder[i]))])
             weighted_sum ==
                 SumSeq([i \in DOMAIN detected_categories |->
                            MoralCategoryWeight(detected_categories[i])])
         IN  [ has_moral_framing |-> total_keyword_count > 0,
               moral_keyword_count |-> total_keyword_count,
               \* min(weighted_sum / 6.0 * 100, 100), rounded to hundredths
               alignment_score |-> PyRound(Min(500 * weighted_sum, 30000), 3) ]

\* detect_moral_violations: total_violation_score
DetectMoralViolations(text) ==
    IF IsBlank(text) THEN 0
    ELSE LET types == {"dignity_violation", "discrimination_normalization",
                       "victim_blaming", "stereotype_reinforcement"}
             found == {t \in types :
                          /\ Found(text, MORAL_VIOLATIONS[t].keywords) # {}
                          /\ Found(text, MORAL_VIOLATIONS[t].contexts) # {}}
             score(t) == IF t \in found THEN MORAL_VIOLATIONS[t].score ELSE 0
         IN  score("dignity_violation") + score("discrimination_normalization")
             + score("victim_blaming") + score("stereotype_reinforcement")

\* arousal_level of calculate_emotional_intensity, in thousandths:
\* round(min(|polarity| + subjectivity * 0.5, 1.0), 3)
ArousalLevel(sentiment) ==
    PyRound(Min(2 * Abs(sentiment.polarity) + sentiment.subjectivity, 2000), 2)

\* the score of calculate_emc_score from the components it gathers, in
\* hundredths; the sum is kept in 1/700 of a hundredth:
\*   |polarity| * 40                            = 2800 * |polT| / 700
\*   min(count / 7 * 15, 15)                    = min(150000 * count, 1050000) / 700
\*   (keyword_score * 0.6 + alignment * 0.4) * 0.4 * 0.25
\*                                              = (42 * ksH + 28 * alignH) / 700
\*   min(violation / 140 * 100, 100) * 0.6 * 0.25
\*                                              = min(7500 * violation, 1050000) / 700
\*   arousal_level * 20                         = 1400 * arousalT / 700
EmcScore(sentiment, emotions, moral_framing, violation_score) ==
    LET keyword_score == 100 * Min(10 * moral_framing.moral_keyword_count, 100)
        total == 2800 * Abs(sentiment.polarity)
                 + Min(150000 * Len(emotions), 1050000)
                 + 42 * keyword_score + 28 * moral_framing.alignment_score
                 + Min(7500 * violation_score, 1050000)
                 + 1400 * ArousalLevel(sentiment)
        \* in 1/7000 of a hundredth
        emc_score == IF violation_score > 20 THEN 13 * total ELSE 10 * total
    IN  PyRound(Min(emc_score, 70000000), 7000)

\* measure_message_clarity: the ratio in thousandths, the score in hundredths
MessageClarity(word_count, abstract_count, question_count, open_ended_count) ==
    IF word_count = 0
    THEN [clarity_score |-> 10000, abstract_ratio |-> 0,
          question_count |-> 0, open_ended_indicators |-> 0]
    ELSE [ clarity_score |->
               Max(PyRound((10000 - 1000 * question_count - 1500 * open_ended_count)
                               * word_count - 5000 * abstract_count, word_count), 0),
           abstract_ratio |-> PyRound(1000 * abstract_count, word_count),
           question_count |-> question_count,
           open_ended_indicators |-> open_ended_count ]

\* the score of calculate_nam_score from the metrics, in hundredths; the sum
\* is kept in twelfths of a hundredth:
\*   min(ratio * 100, 100) * 0.30          = 36 * min(ratioT, 1000) / 12
\*   min((q + open) / 3, 1) * 100 * 0.25   = 10000 * min(q + open, 3) / 12
\*   min(metaphors / 5, 1) * 100 * 0.20    = 4800 * min(metaphors, 5) / 12
\*   (100 - clarity) * 0.25                = 3 * (10000 - clarityH) / 12
NamScore(clarity_metrics, metaphor_count) ==
    LET nam_score ==
            36 * Min(clarity_metrics.abstract_ratio, 1000)
            + 10000 * Min(clarity_metrics.question_count
                            + clarity_metrics.open_ended_indicators, 3)
            + 4800 * Min(metaphor_count, 5)
            + 3 * (10000 - clarity_metrics.clarity_score)
    IN  PyRound(Min(nam_score, 120000), 12)

---------------------------------------------------------------------------
(* CulturalSensitivityDetector.detect_compound_patterns *)

\* HARMFUL_PATTERNS; the multiplier is kept in tenths (2.5 is 25)
HARMFUL_PATTERNS ==
    [ colorism_discrimination |->
        [ primary |-> {"dark skin", "dusky", "wheatish", "kaali", "dark complexion"},
          amplifiers |-> {"hold back", "hold you back", "problem", "barrier", "obstacle",
                          "job", "career", "marriage", "success", "confidence"},
          solutions |-> {"fairness", "whitening", "brightening", "lighter", "fair skin",
                         "serum", "cream", "treatment"},
          multiplier |-> 25, base_score |-> 40, title |-> "Colorism Discrimination" ],
      colorism_beauty |->
        [ primary |-> {"fair skin", "gori", "white", "light skin", "pale"},
          amplifiers |-> {"beautiful", "pretty", "attractive", "gorgeous", "stunning",
                          "desirable", "perfect"},
          solutions |-> {"cream", "serum", "treatment", "product"},
          multiplier |-> 20, base_score |-> 35, title |-> "Colorism Beauty" ],
      body_shaming |->
        [ primary |-> {"fat", "thin", "skinny", "overweight", "underweight", "body"},
          amplifiers |-> {"problem", "ugly", "shame", "embarrass", "unattractive",
                          "disgusting", "gross"},
          solutions |-> {"lose weight", "gain weight", "slim", "diet", "transform"},
          multiplier |-> 20, base_score |-> 30, title |-> "Body Shaming" ] ]

\* the patterns in the order the dictionary is iterated
PatternOrder == <<"colorism_discrimination", "colorism_beauty", "body_shaming">>

\* risk_weight = int(base_score * multiplier * min(compound_factor, 2)),
\* clamped to 100 per alert
CompoundRiskWeightClamped(pattern_def, compound_factor) ==
    Min(TruncDiv(pattern_def.base_score * pattern_def.multiplier * Min(compound_factor, 2), 10),
        100)

\* risk_weight = int(base_score * multiplier * min(compound_factor, 2))
CompoundRiskWeight(pattern_def, compound_factor) ==
    TruncDiv(pattern_def.base_score * pattern_def.multiplier * Min(compound_factor, 2), 10)

\* one iteration of the loop over HARMFUL_PATTERNS, any companion keyword
\* being enough
DetectPatternNoPrimary(text, pattern_name) ==
    LET pattern_def == HARMFUL_PATTERNS[pattern_name]
        amplifiers_found == Found(text, pattern_def.amplifiers)
        solutions_found == Found(text, pattern_def.solutions)
    IN  IF amplifiers_found = {} /\ solutions_found = {} THEN <<>>
        ELSE << [ pattern_type |-> pattern_name,
                  keyword |-> pattern_def.title,
                  category |-> "Compound Pattern",
                  severity |-> "critical",
                  risk_weight |-> CompoundRiskWeight(pattern_def,
                      Cardinality(amplifiers_found) + Cardinality(solutions_found)),
                  source |-> "compound_detection",
                  amplifiers |-> amplifiers_found,
                  solutions |-> solutions_found ] >>

\* one iteration of the loop over HARMFUL_PATTERNS: the alerts it appends
DetectPattern(text, pattern_name) ==
    LET pattern_def == HARMFUL_PATTERNS[pattern_name]
        primary_found == Found(text, pattern_def.primary) # {}
        amplifiers_found == Found(text, pattern_def.amplifiers)
        solutions_found == Found(text, pattern_def.solutions)
    IN  IF ~primary_found THEN <<>>
        ELSE IF amplifiers_found = {} /\ solutions_found = {} THEN <<>>
        ELSE << [ pattern_type |-> pattern_name,
                  keyword |-> pattern_def.title,
                  category |-> "Compound Pattern",
                  severity |-> "critical",
                  risk_weight |-> CompoundRiskWeight(pattern_def,
                      Cardinality(amplifiers_found) + Cardinality(solutions_found)),
                  source |-> "compound_detection",
                  amplifiers |-> amplifiers_found,
                  solutions |-> solutions_found ] >>

DetectCompoundPatterns(text) ==
    IF IsBlank(text) THEN <<>>
    ELSE DetectPattern(text, PatternOrder[1])
         \o DetectPattern(text, PatternOrder[2])
         \o DetectPattern(text, PatternOrder[3])

---------------------------------------------------------------------------
(* CulturalSensitivityDetector: triggers, festival proximity, SCS *)

\* the cultural trigger table the loader returns (keyword, category,
\* severity, risk_weight), in file order
cultural_triggers ==
    <<
      [keyword |-> "beef", category |-> "Religious", severity |-> "critical", risk_weight |-> 40],
      [keyword |-> "cow meat", category |-> "Religious", severity |-> "critical", risk_weight |-> 40],
      [keyword |-> "pork", category |-> "Religious", severity |-> "high", risk_weight |-> 30],
      [keyword |-> "interfaith", category |-> "Religious", severity |-> "high", risk_weight |-> 25],
      [keyword |-> "temple", category |-> "Religious", severity |-> "medium", risk_weight |-> 15],
      [keyword |-> "mosque", category |-> "Religious", severity |-> "medium", risk_weight |-> 15],
      [keyword |-> "church", category |-> "Religious", severity |-> "medium", risk_weight |-> 15],
      [keyword |-> "gurudwara", category |-> "Religious", severity |-> "medium", risk_weight |-> 15],
      [keyword |-> "hindu muslim", category |-> "Religious", severity |-> "high", risk_weight |-> 30],
      [keyword |-> "fair skin", category |-> "Colorism", severity |-> "critical", risk_weight |-> 40],
      [keyword |-> "gora", category |-> "Colorism", severity |-> "critical", risk_weight |-> 35],
      [keyword |-> "whitening", category |-> "Colorism", severity |-> "critical", risk_weight |-> 40],
      [keyword |-> "fair and lovely", category |-> "Colorism", severity |-> "critical", risk_weight |-> 40],
      [keyword |-> "dark skin", category |-> "Colorism", severity |-> "high", risk_weight |-> 30],
      [keyword |-> "dusky", category |-> "Colorism", severity |-> "high", risk_weight |-> 25],
      [keyword |-> "complexion", category |-> "Colorism", severity |-> "medium", risk_weight |-> 20],
      [keyword |-> "pakistan", category |-> "Geopolitical", severity |-> "high", risk_weight |-> 30],
      [keyword |-> "kashmir", category |-> "Geopolitical", severity |-> "critical", risk_weight |-> 40],
      [keyword |-> "china", category |-> "Geopolitical", severity |-> "high", risk_weight |-> 25],
      [keyword |-> "border", category |-> "Geopolitical", severity |-> "medium", risk_weight |-> 20],
      [keyword |-> "army", category |-> "Geopolitical", severity |-> "medium", risk_weight |-> 15],
      [keyword |-> "soldier", category |-> "Geopolitical", severity |-> "medium", risk_weight |-> 15],
      [keyword |-> "alcohol", category |-> "Cultural", severity |-> "medium", risk_weight |-> 20],
      [keyword |-> "drinking", category |-> "Cultural", severity |-> "medium", risk_weight |-> 18],
      [keyword |-> "consent", category |-> "Cultural", severity |-> "high", risk_weight |-> 25],
      [keyword |-> "harassment", category |-> "Cultural", severity |-> "high", risk_weight |-> 30],
      [keyword |-> "dowry", category |-> "Cultural", severity |-> "high", risk_weight |-> 25],
      [keyword |-> "caste", category |-> "Cultural", severity |-> "critical", risk_weight |-> 35],
      [keyword |-> "reservation", category |-> "Cultural", severity |-> "high", risk_weight |-> 30],
      [keyword |-> "love jihad", category |-> "Cultural", severity |-> "critical", risk_weight |-> 40],
      [keyword |-> "beef ban", category |-> "Cultural", severity |-> "critical", risk_weight |-> 40],
      [keyword |-> "north indian", category |-> "Regional", severity |-> "medium", risk_weight |-> 15],
      [keyword |-> "south indian", category |-> "Regional", severity |-> "medium", risk_weight |-> 15],
      [keyword |-> "madrasi", category |-> "Regional", severity |-> "high", risk_weight |-> 25],
      [keyword |-> "objectification", category |-> "Gender", severity |-> "high", risk_weight |-> 30],
      [keyword |-> "item song", category |-> "Gender", severity |-> "medium", risk_weight |-> 20],
      [keyword |-> "fair bride", category |-> "Gender", severity |-> "critical", risk_weight |-> 40] >>

\* the festival calendar the loader returns, in file order
festival_calendar ==
    <<
      [festival_name |-> "Diwali", date_2025 |-> "2025-10-20",
        sensitivity_keywords |-> <<"alcohol", "meat", "negative", "gambling">>],
      [festival_name |-> "Eid al-Fitr", date_2025 |-> "2025-03-30",
        sensitivity_keywords |-> <<"pork", "alcohol", "non-halal">>],
      [festival_name |-> "Eid al-Adha", date_2025 |-> "2025-06-07",
        sensitivity_keywords |-> <<"pork", "alcohol", "disrespect">>],
      [festival_name |-> "Holi", date_2025 |-> "2025-03-14",
        sensitivity_keywords |-> <<"consent", "harassment", "force", "non-consensual">>],
      [festival_name |-> "Independence Day", date_2025 |-> "2025-08-15",
        sensitivity_keywords |-> <<"political", "pakistan", "anti-national", "partition">>],
      [festival_name |-> "Republic Day", date_2025 |-> "2025-01-26",
        sensitivity_keywords |-> <<"political", "anti-national", "constitution">>],
      [festival_name |-> "Ganesh Chaturthi", date_2025 |-> "2025-08-27",
        sensitivity_keywords |-> <<"disrespect", "mockery", "religious">>],
      [festival_name |-> "Durga Puja", date_2025 |-> "2025-09-30",
        sensitivity_keywords |-> <<"disrespect", "mockery", "religious", "bengali">>],
      [festival_name |-> "Navratri", date_2025 |-> "2025-09-22",
        sensitivity_keywords |-> <<"alcohol", "meat", "non-veg", "disrespect">>],
      [festival_name |-> "Dussehra", date_2025 |-> "2025-10-02",
        sensitivity_keywords |-> <<"negative", "evil", "disrespect">>],
      [festival_name |-> "Karva Chauth", date_2025 |-> "2025-10-09",
        sensitivity_keywords |-> <<"mockery", "tradition", "patriarchy">>],
      [festival_name |-> "Guru Nanak Jayanti", date_2025 |-> "2025-11-05",
        sensitivity_keywords |-> <<"disrespect", "religious", "sikh">>],
      [festival_name |-> "Christmas", date_2025 |-> "2025-12-25",
        sensitivity_keywords |-> <<"disrespect", "religious", "christian">>],
      [festival_name |-> "Makar Sankranti", date_2025 |-> "2025-01-14",
        sensitivity_keywords |-> <<"negative", "harvest">>],
      [festival_name |-> "Pongal", date_2025 |-> "2025-01-15",
        sensitivity_keywords |-> <<"negative", "harvest", "tamil", "south">>],
      [festival_name |-> "Maha Shivaratri", date_2025 |-> "2025-02-26",
        sensitivity_keywords |-> <<"disrespect", "mockery", "religious", "shiva">>],
      [festival_name |-> "Ramadan", date_2025 |-> "2025-03-01",
        sensitivity_keywords |-> <<"food", "eating", "disrespect", "fasting">>],
      [festival_name |-> "Ram Navami", date_2025 |-> "2025-04-06",
        sensitivity_keywords |-> <<"disrespect", "religious", "ram", "ayodhya">>],
      [festival_name |-> "Mahavir Jayanti", date_2025 |-> "2025-04-10",
        sensitivity_keywords |-> <<"violence", "meat", "non-veg", "jain">>],
      [festival_name |-> "Buddha Purnima", date_2025 |-> "2025-05-12",
        sensitivity_keywords |-> <<"disrespect", "religious", "buddhist">>],
      [festival_name |-> "Raksha Bandhan", date_2025 |-> "2025-08-09",
        sensitivity_keywords |-> <<"sibling", "family", "tradition">>],
      [festival_name |-> "Janmashtami", date_2025 |-> "2025-08-16",
        sensitivity_keywords |-> <<"disrespect", "mockery", "krishna", "religious">>],
      [festival_name |-> "Onam", date_2025 |-> "2025-08-28",
        sensitivity_keywords |-> <<"negative", "kerala", "south", "harvest">>],
      [festival_name |-> "Gandhi Jayanti", date_2025 |-> "2025-10-02",
        sensitivity_keywords |-> <<"violence", "disrespect", "political", "gandhi">>] >>

\* datetime.strptime(s, '%Y-%m-%d') as the day of the year 2025, 0 for a
\* string that does not parse
DayOfYear(s) ==
    CASE s = "2025-01-01" -> 1
      [] s = "2025-01-14" -> 14
      [] s = "2025-01-15" -> 15
      [] s = "2025-01-26" -> 26
      [] s = "2025-02-26" -> 57
      [] s = "2025-03-01" -> 60
      [] s = "2025-03-14" -> 73
      [] s = "2025-03-30" -> 89
      [] s = "2025-04-06" -> 96
      [] s = "2025-04-10" -> 100
      [] s = "2025-05-12" -> 132
      [] s = "2025-06-07" -> 158
      [] s = "2025-08-09" -> 221
      [] s = "2025-08-15" -> 227
      [] s = "2025-08-16" -> 228
      [] s = "2025-08-27" -> 239
      [] s = "2025-08-28" -> 240
      [] s = "2025-09-22" -> 265
      [] s = "2025-09-30" -> 273
      [] s = "2025-10-02" -> 275
      [] s = "2025-10-09" -> 282
      [] s = "2025-10-14" -> 287
      [] s = "2025-10-17" -> 290
      [] s = "2025-10-18" -> 291
      [] s = "2025-10-20" -> 293
      [] s = "2025-10-21" -> 294
      [] s = "2025-10-28" -> 301
      [] s = "2025-11-05" -> 309
      [] s = "2025-12-25" -> 359
      [] OTHER -> 0

\* detect_triggers without image analysis: the compound alerts first, then
\* one alert per row of the table whose keyword occurs as a word
DetectTriggers(text) ==
    IF IsBlank(text) THEN <<>>
    ELSE LET rows == SelectSeq(data_loader.cultural_triggers,
                               LAMBDA t : ContainsWord(text, Lower(t.keyword)))
         IN  DetectCompoundPatterns(text)
             \o [i \in DOMAIN rows |->
                    [ keyword |-> rows[i].keyword,
                      category |-> rows[i].category,
                      severity |-> rows[i].severity,
                      risk_weight |-> rows[i].risk_weight,
                      source |-> "text" ]]

\* a reading of the posting date that takes day-month-year as well
ParsePostingDateLenient(posting_date) ==
    IF Len(posting_date) # 1 THEN 0
    ELSE CASE posting_date[1] = "18-10-2025" -> 291
           [] posting_date[1] = "21-10-2025" -> 294
           [] OTHER -> DayOfYear(posting_date[1])

\* the posting date as strptime reads it: a single well-formed date
ParsePostingDate(posting_date) ==
    IF Len(posting_date) = 1 THEN DayOfYear(posting_date[1]) ELSE 0

\* the alerts of check_festival_proximity over a loaded calendar: a festival
\* whose date does not parse is passed over, the others are checked in order
FestivalAlerts(calendar, posting_date, content) ==
    IF posting_date = <<>> \/ content = <<>> THEN <<>>
    ELSE IF ParsePostingDate(posting_date) = 0 THEN <<>>
    ELSE LET post_date == ParsePostingDate(posting_date)
             days_diff(f) == Abs(DayOfYear(f.date_2025) - post_date)
             conflicts(f) == SelectSeq(f.sensitivity_keywords,
                                       LAMBDA kw : Contains(content, Lower(kw)))
             near == SelectSeq(calendar,
                               LAMBDA f : /\ DayOfYear(f.date_2025) # 0
                                          /\ days_diff(f) <= 7
                                          /\ conflicts(f) # <<>>)
         IN  [i \in DOMAIN near |->
                [ festival |-> near[i].festival_name,
                  festival_date |-> near[i].date_2025,
                  days_away |-> days_diff(near[i]),
                  severity |-> IF days_diff(near[i]) <= 3 THEN "critical" ELSE "high",
                  risk_weight |-> IF days_diff(near[i]) <= 3 THEN 35 ELSE 25,
                  conflicts |-> conflicts(near[i]) ]]

\* check_festival_proximity with the calendar the service ships
CheckFestivalProximity(posting_date, content) ==
    FestivalAlerts(data_loader.festival_calendar, posting_date, content)

---------------------------------------------------------------------------
(* DataLoader.  A dataset file is its header and its rows; a row is the    *)
(* sequence of its fields, a field the sequence of the pieces of its       *)
(* string.  csv.DictReader gives None for a field the row does not reach.  *)

\* the string of a field
RECURSIVE Join(_)
Join(pieces) == IF pieces = <<>> THEN "" ELSE Head(pieces) \o Join(Tail(pieces))

\* str.split(';') from the piece reached, cur being the part read so far
RECURSIVE SplitFrom(_, _)
SplitFrom(pieces, cur) ==
    IF pieces = <<>> THEN <<cur>>
    ELSE IF Head(pieces) = ";" THEN <<cur>> \o SplitFrom(Tail(pieces), "")
    ELSE SplitFrom(Tail(pieces), cur \o Head(pieces))

\* str.split(';'): a string without ';' (the empty one too) is one part
SplitSemicolon(pieces) == SplitFrom(pieces, "")

\* int(s): ok is FALSE where int raises ValueError
ParseInt(s) ==
    CASE s = "40" -> [ok |-> TRUE, value |-> 40]
      [] s = "30" -> [ok |-> TRUE, value |-> 30]
      [] s = "25" -> [ok |-> TRUE, value |-> 25]
      [] s = "15" -> [ok |-> TRUE, value |-> 15]
      [] OTHER    -> [ok |-> FALSE, value |-> 0]

TriggerFields == <<"keyword", "category", "alert_message", "severity", "risk_weight">>
FestivalFields == <<"festival_name", "date_2025", "sensitivity_keywords", "description">>

\* the value of a row under a field name is None
IsNone(fieldnames, row, name) ==
    \A j \in DOMAIN fieldnames : fieldnames[j] = name => j > Len(row)

\* the string a row holds under a field name
FieldOf(fieldnames, row, name) ==
    Join(row[CHOOSE j \in DOMAIN fieldnames : fieldnames[j] = name])

\* _load_csv: the rows of the file, none when the header lacks a required
\* field
LoadCsv(file, required_fields) ==
    IF /\ file.rows # <<>>
       /\ \E i \in DOMAIN required_fields :
            \A j \in DOMAIN file.fieldnames : file.fieldnames[j] # required_fields[i]
    THEN <<>>
    ELSE file.rows

\* the outcome of a loader: the exception that left it, or its data
Raised(exception) == [raised |-> TRUE, exception |-> exception, data |-> <<>>]
Loaded(data) == [raised |-> FALSE, exception |-> "", data |-> data]

\* load_cultural_triggers: the synthetic table where the file gives no row;
\* int() of a weight that is no number is caught, int(None) is not
LoadCulturalTriggers(file) ==
    LET data == LoadCsv(file, TriggerFields)
        h == file.fieldnames
        weight(row) == ParseInt(FieldOf(h, row, "risk_weight"))
    IN  IF data = <<>> THEN Loaded(cultural_triggers)
        ELSE IF \E i \in DOMAIN data : IsNone(h, data[i], "risk_weight")
        THEN Raised("TypeError")
        ELSE Loaded([i \in DOMAIN data |->
                [ keyword |-> FieldOf(h, data[i], "keyword"),
                  category |-> FieldOf(h, data[i], "category"),
                  severity |-> FieldOf(h, data[i], "severity"),
                  risk_weight |-> IF weight(data[i]).ok THEN weight(data[i]).value
                                  ELSE 0 ]])

\* load_festival_calendar: the synthetic calendar where the file gives no
\* row; the keyword field of every row is split at ';'
LoadFestivalCalendar(file) ==
    LET data == LoadCsv(file, FestivalFields)
        h == file.fieldnames
    IN  IF data = <<>> THEN Loaded(festival_calendar)
        ELSE IF \E i \in DOMAIN data : IsNone(h, data[i], "sensitivity_keywords")
        THEN Raised("AttributeError")
        ELSE Loaded([i \in DOMAIN data |->
                [ festival_name |-> FieldOf(h, data[i], "festival_name"),
                  date_2025 |-> FieldOf(h, data[i], "date_2025"),
                  sensitivity_keywords |->
                      SplitSemicolon(data[i][CHOOSE j \in DOMAIN h :
                                                 h[j] = "sensitivity_keywords"]) ]])

\* check_festival_proximity of a detector that has not loaded its data yet:
\* _load_data first, then the check over the calendar it gave
LoadAndCheckFestivalProximity(file, posting_date, content) ==
    LET loaded == LoadFestivalCalendar(file)
    IN  [ raised |-> loaded.raised, calendar |-> loaded.data,
          alerts |-> IF loaded.raised THEN <<>>
                     ELSE FestivalAlerts(loaded.data, posting_date, content) ]

\* the number of alerts of critical or high severity, case folded
NormViolations(alerts) ==
    Cardinality({i \in DOMAIN alerts : Lower(alerts[i].severity) \in {"critical", "high"}})

\* the score of calculate_scs_score without the cap at 100
ScsScoreUncapped(detected_triggers, festival_alerts) ==
    LET trigger_risk ==
            SumSeq([i \in DOMAIN detected_triggers |-> detected_triggers[i].risk_weight])
        festival_risk ==
            SumSeq([i \in DOMAIN festival_alerts |-> festival_alerts[i].risk_weight])
        norm_violations == NormViolations(detected_triggers) + NormViolations(festival_alerts)
    IN  100 * (trigger_risk + festival_risk + norm_violations * 10)

\* the score of calculate_scs_score without the norm violation penalty
ScsScoreNoPenalty(detected_triggers, festival_alerts) ==
    LET trigger_risk ==
            SumSeq([i \in DOMAIN detected_triggers |-> detected_triggers[i].risk_weight])
        festival_risk ==
            SumSeq([i \in DOMAIN festival_alerts |-> festival_alerts[i].risk_weight])
    IN  100 * Min(trigger_risk + festival_risk, 100)

\* the score of calculate_scs_score from the alerts, in hundredths
ScsScore(detected_triggers, festival_alerts) ==
    LET trigger_risk ==
            SumSeq([i \in DOMAIN detected_triggers |-> detected_triggers[i].risk_weight])
        festival_risk ==
            SumSeq([i \in DOMAIN festival_alerts |-> festival_alerts[i].risk_weight])
        norm_violations == NormViolations(detected_triggers) + NormViolations(festival_alerts)
        scs_score == trigger_risk + festival_risk + norm_violations * 10
    IN  100 * Min(scs_score, 100)

\* calculate_scs_score without image analysis
CalculateScsScore(text, posting_date) ==
    IF IsBlank(text)
    THEN [scs_score |-> 0, detected_triggers |-> <<>>, festival_proximity |-> <<>>]
    ELSE LET detected_triggers == DetectTriggers(text)
             festival_alerts == IF posting_date # <<>>
                                THEN CheckFestivalProximity(posting_date, text)
                                ELSE <<>>
         IN  [ scs_score |-> ScsScore(detected_triggers, festival_alerts),
               detected_triggers |-> detected_triggers,
               festival_proximity |-> festival_alerts ]

---------------------------------------------------------------------------
(* PerceivedIntentCalculator *)

\* PerceivedIntentCalculator.MANIPULATION_PATTERNS: each pattern pairs two
\* keyword lists (first, second) and carries a penalty
MANIPULATION_PATTERNS ==
    [insecurity_exploitation |->
        [ first |-> {"dont let", "stop letting", "hold you back",
                    "holding you back", "problem", "issue", "struggle",
                    "suffering"},
          second |-> {"transform", "change", "finally", "guaranteed",
                     "secret", "solution", "answer", "fix", "cure"},
          penalty |-> 40 ],
      fear_based_selling |->
        [ first |-> {"miss out", "left behind", "before its too late",
                    "running out", "limited", "last chance", "dont wait",
                    "act now"},
          second |-> {"now", "today", "hurry", "quick", "fast", "immediate"},
          penalty |-> 35 ],
      shame_based_marketing |->
        [ first |-> {"embarrassed", "ashamed", "hide", "ugly", "unattractive",
                    "disgusting", "gross", "inferior"},
          second |-> {"finally", "no more", "say goodbye", "never again",
                     "transform"},
          penalty |-> 45 ],
      false_causation |->
        [ first |-> {"because of your", "due to your", "your X is why",
                    "reason you", "thats why you", "if only you"},
          second |-> {"job", "career", "marriage", "success", "failure",
                     "rejection", "relationship", "money", "wealth"},
          penalty |-> 50 ] ]

ManipulationOrder == <<"insecurity_exploitation", "fear_based_selling",
                       "shame_based_marketing", "false_causation">>

\* calculate_authenticity_score, in hundredths; the sum is kept in 1/20 of a
\* hundredth:
\*   (polarity + 1) / 2 * 100 * 0.30    = 30 * (polT + 1000) / 20
\*   (100 - scs) * 0.40                 = 8 * (10000 - scsH) / 20
\*   emc_appropriateness * 0.30         = 60000 / 20, 15 * emcH / 20 or
\*                                        20 * max(0, 10000 - emcH) / 20
CalculateAuthenticityScore(sentiment, scs_score, emc_score) ==
    LET sentiment_component == 30 * (sentiment.polarity + 1000)
        low_scs_component == 8 * (10000 - scs_score)
        emc_component ==
            IF 4000 <= emc_score /\ emc_score <= 7000 THEN 60000
            ELSE IF emc_score < 4000 THEN 15 * emc_score
            ELSE 20 * Max(0, 10000 - emc_score)
        authenticity == sentiment_component + low_scs_component + emc_component
    IN  PyRound(Min(Max(authenticity, 0), 200000), 20)

\* detect_manipulation_patterns
DetectManipulationPatterns(text, scs_score, sentiment) ==
    IF IsBlank(text)
    THEN [manipulation_detected |-> FALSE, patterns_found |-> 0, total_penalty |-> 0]
    ELSE LET detected(name) ==
                 /\ Found(text, MANIPULATION_PATTERNS[name].first) # {}
                 /\ Found(text, MANIPULATION_PATTERNS[name].second) # {}
             hits == SelectSeq(ManipulationOrder, detected)
             special == scs_score > 5000 /\ sentiment.polarity > 300
             total_penalty ==
                 SumSeq([i \in DOMAIN hits |-> MANIPULATION_PATTERNS[hits[i]].penalty])
                 + (IF special THEN 25 ELSE 0)
             patterns_found == Len(hits) + (IF special THEN 1 ELSE 0)
         IN  [ manipulation_detected |-> patterns_found > 0,
               patterns_found |-> patterns_found,
               total_penalty |-> total_penalty ]

\* calculate_manipulation_risk, in hundredths; the sum is kept in fifths of a
\* hundredth:
\*   scs * 0.40                          = 2 * scsH / 5
\*   (emc - 70) / 30 * 100 * 0.30        = 5 * (emcH - 7000) / 5
\*   subjectivity * 100 * 0.30           = 15 * subjT / 5
CalculateManipulationRisk(scs_score, emc_score, sentiment) ==
    LET manipulation ==
            2 * scs_score
            + (IF emc_score <= 7000 THEN 0 ELSE 5 * (emc_score - 7000))
            + 15 * sentiment.subjectivity
    IN  PyRound(Min(Max(manipulation, 0), 50000), 5)

\* calculate_perceived_intent without the cap on the manipulation score
\* after the penalties
CalculatePerceivedIntentPenaltyUncapped(emc_score, nam_score, scs_score, sentiment, text) ==
    LET authenticity == CalculateAuthenticityScore(sentiment, scs_score, emc_score)
        base == CalculateManipulationRisk(scs_score, emc_score, sentiment)
        manipulation_detection == DetectManipulationPatterns(text, scs_score, sentiment)
        manipulation == base + 100 * manipulation_detection.total_penalty
    IN  [ intent_score |-> Max(Min(authenticity - manipulation, 10000), -10000),
          authenticity |-> authenticity,
          manipulation_risk |-> manipulation,
          manipulation_patterns |-> manipulation_detection ]

\* calculate_perceived_intent
CalculatePerceivedIntent(emc_score, nam_score, scs_score, sentiment, text) ==
    LET authenticity == CalculateAuthenticityScore(sentiment, scs_score, emc_score)
        base == CalculateManipulationRisk(scs_score, emc_score, sentiment)
        manipulation_detection == DetectManipulationPatterns(text, scs_score, sentiment)
        manipulation ==
            IF manipulation_detection.manipulation_detected
            THEN Min(base + 100 * manipulation_detection.total_penalty, 10000)
            ELSE base
    IN  [ intent_score |-> Max(Min(authenticity - manipulation, 10000), -10000),
          authenticity |-> authenticity,
          manipulation_risk |-> manipulation,
          manipulation_patterns |-> manipulation_detection ]

---------------------------------------------------------------------------
(* TPBCalculator *)

\* platform_multipliers, in tenths; 1.0 for a platform the table lacks
NormsMultiplier(platform) ==
    CASE Lower(platform) = "instagram" -> 13
      [] Lower(platform) = "tiktok"    -> 14
      [] Lower(platform) = "youtube"   -> 10
      [] Lower(platform) = "twitter"   -> 12
      [] Lower(platform) = "facebook"  -> 12
      [] Lower(platform) = "linkedin"  -> 11
      [] OTHER                         -> 10

\* indian_emotion_boosts (pride, nostalgia: 10) and the boost of 5 for the
\* other positive emotions
EmotionBoost(emotion) ==
    IF emotion \in {"pride", "nostalgia"} THEN 10
    ELSE IF emotion \in {"joy", "inspiration", "humor"} THEN 5
    ELSE 0

\* calculate_attitude, in hundredths; the sum is kept in tenths of a hundredth:
\*   (polarity + 1) / 2 * 100 * 0.5   = 25 * (polT + 1000) / 10
\*   emc * 0.3                        = 3 * emcH / 10
\*   (intent + 100) / 2 * 0.2         = (intentH + 10000) / 10
CalculateAttitude(sentiment, emc_score, perceived_intent, emotions) ==
    LET attitude_base == 25 * (sentiment.polarity + 1000) + 3 * emc_score
                         + (perceived_intent + 10000)
        emotion_boost == SumSeq([i \in DOMAIN emotions |-> EmotionBoost(emotions[i])])
    IN  PyRound(Min(attitude_base + 1000 * emotion_boost, 100000), 10)

\* calculate_subjective_norms
CalculateSubjectiveNorms(platform, influencer, emotions) ==
    LET pre_multiplier_score ==
            50 + (IF influencer THEN 25 ELSE 0)
               + (IF \E i \in DOMAIN emotions : emotions[i] = "pride" THEN 10 ELSE 0)
    IN  Min(pre_multiplier_score * NormsMultiplier(platform) * 10, 10000)

\* calculate_perceived_control
CalculatePerceivedControl(sentiment, nam_score) ==
    LET control_score ==
            70 - (IF sentiment.subjectivity > 700 THEN 10 ELSE 0)
               - (IF nam_score > 5000 THEN 15 ELSE 0)
               - (IF sentiment.polarity < -200 THEN 20 ELSE 0)
    IN  100 * Max(control_score, 0)

\* calculate_behavioral_intention; the sum is kept in 1/100 of a hundredth
CalculateBehavioralIntention(attitude, subjective_norms, perceived_control) ==
    LET intention_score == 40 * attitude + 35 * subjective_norms + 25 * perceived_control
    IN  PyRound(Min(Max(intention_score, 0), 1000000), 100)

\* calculate_tpb_scores
CalculateTpbScores(sentiment, emc_score, perceived_intent, nam_score, emotions, platform, influencer) ==
    LET attitude == CalculateAttitude(sentiment, emc_score, perceived_intent, emotions)
        subjective_norms == CalculateSubjectiveNorms(platform, influencer, emotions)
        perceived_control == CalculatePerceivedControl(sentiment, nam_score)
    IN  [ attitude |-> attitude,
          subjective_norms |-> subjective_norms,
          perceived_control |-> perceived_control,
          behavioral_intention |->
              CalculateBehavioralIntention(attitude, subjective_norms, perceived_control) ]

---------------------------------------------------------------------------
(* OutcomePredictor.predict_backlash *)

\* the number of alerts whose severity is exactly sev (no case folding here)
SeverityCount(cultural_alerts, sev) ==
    Cardinality({i \in DOMAIN cultural_alerts : cultural_alerts[i].severity = sev})

\* cultural_risk without the severity multiplier, in tenths of a point
CulturalRiskFlat(cultural_alerts) ==
    10 * SumSeq([i \in DOMAIN cultural_alerts |-> cultural_alerts[i].risk_weight])

\* severity_multiplier, in tenths
SeverityMultiplier(cultural_alerts) ==
    IF SeverityCount(cultural_alerts, "critical") > 0 THEN 15
    ELSE IF SeverityCount(cultural_alerts, "high") > 0 THEN 13
    ELSE 10

\* cultural_risk after the severity multiplier, in tenths of a point
CulturalRisk(cultural_alerts) ==
    LET total == SumSeq([i \in DOMAIN cultural_alerts |-> cultural_alerts[i].risk_weight])
    IN  total * SeverityMultiplier(cultural_alerts)

IntentContribution(perceived_intent) ==
    IF perceived_intent < -5000 THEN 100
    ELSE IF perceived_intent < -2000 THEN 80
    ELSE IF perceived_intent < 0 THEN 60
    ELSE IF perceived_intent < 2000 THEN 40
    ELSE 20

\* the sum of the four weighted components, in 1/200 of a point:
\*   min(cultural_risk / 150 * 100, 100) * 0.30  =  4 * min(cr10, 1500) / 200
\*   intent_contribution * 0.40                  =  80 * contribution / 200
\*   (emc - 70) / 30 * 100 * 0.15                =  (emcH - 7000) / 200
\*   abs(polarity) * 100 * 0.15                  =  3 * |polT| / 200
BacklashBase(perceived_intent, cultural_alerts, polarity, emc_score) ==
    4 * Min(CulturalRisk(cultural_alerts), 1500)
    + 80 * IntentContribution(perceived_intent)
    + (IF emc_score > 7000 THEN emc_score - 7000 ELSE 0)
    + (IF polarity < 0 THEN 3 * Abs(polarity) ELSE 0)

RiskFactors(perceived_intent, cultural_alerts, polarity, emc_score) ==
    (IF CulturalRisk(cultural_alerts) > 300 THEN 1 ELSE 0)
    + (IF perceived_intent < -2000 THEN 1 ELSE 0)
    + (IF emc_score > 7000 THEN 1 ELSE 0)
    + (IF polarity < -300 THEN 1 ELSE 0)
    + (IF SeverityCount(cultural_alerts, "critical") > 0 THEN 1 ELSE 0)

\* predict_backlash with the cap applied before the compound multiplier
PredictBacklashClampFirst(perceived_intent, scs_score, cultural_alerts, polarity, emc_score) ==
    LET base == BacklashBase(perceived_intent, cultural_alerts, polarity, emc_score)
        risk_factors == RiskFactors(perceived_intent, cultural_alerts, polarity, emc_score)
        compound_effect == risk_factors >= 3
        capped == Min(base, 20000)
        backlash_risk == IF compound_effect THEN 13 * capped ELSE 10 * capped
    IN  [ backlash_risk |-> PyRound(backlash_risk, 20),
          compound_effect |-> compound_effect,
          risk_factors |-> risk_factors,
          severity_multiplier |-> SeverityMultiplier(cultural_alerts),
          critical_alerts |-> SeverityCount(cultural_alerts, "critical"),
          high_alerts |-> SeverityCount(cultural_alerts, "high") ]

\* predict_backlash with the cultural component taken from scs_score
PredictBacklashFromScs(perceived_intent, scs_score, cultural_alerts, polarity, emc_score) ==
    LET base == BacklashBase(perceived_intent, cultural_alerts, polarity, emc_score)
                - 4 * Min(CulturalRisk(cultural_alerts), 1500) + 60 * (scs_score \div 100)
        risk_factors == RiskFactors(perceived_intent, cultural_alerts, polarity, emc_score)
        compound_effect == risk_factors >= 3
        backlash_risk == IF compound_effect THEN 13 * base ELSE 10 * base
        capped == Min(backlash_risk, 200000)
    IN  [ backlash_risk |-> PyRound(capped, 20),
          compound_effect |-> compound_effect,
          risk_factors |-> risk_factors,
          severity_multiplier |-> SeverityMultiplier(cultural_alerts),
          critical_alerts |-> SeverityCount(cultural_alerts, "critical"),
          high_alerts |-> SeverityCount(cultural_alerts, "high") ]

\* predict_backlash; the result in hundredths of a point.  scs_score is a
\* parameter the code never reads.
PredictBacklash(perceived_intent, scs_score, cultural_alerts, polarity, emc_score) ==
    LET base == BacklashBase(perceived_intent, cultural_alerts, polarity, emc_score)
        risk_factors == RiskFactors(perceived_intent, cultural_alerts, polarity, emc_score)
        compound_effect == risk_factors >= 3
        \* in 1/2000 of a point
        backlash_risk == IF compound_effect THEN 13 * base ELSE 10 * base
        capped == Min(backlash_risk, 200000)
    IN  [ backlash_risk |-> PyRound(capped, 20),
          compound_effect |-> compound_effect,
          risk_factors |-> risk_factors,
          severity_multiplier |-> SeverityMultiplier(cultural_alerts),
          critical_alerts |-> SeverityCount(cultural_alerts, "critical"),
          high_alerts |-> SeverityCount(cultural_alerts, "high") ]

---------------------------------------------------------------------------
(* OutcomePredictor: virality, exposure, ad fatigue *)

\* virality_platform_multipliers, in hundredths; 1.0 for a platform the
\* table lacks
ViralityMultiplier(platform) ==
    CASE Lower(platform) = "instagram" -> 105
      [] Lower(platform) = "tiktok"    -> 110
      [] Lower(platform) = "youtube"   -> 100
      [] Lower(platform) = "twitter"   -> 105
      [] Lower(platform) = "facebook"  -> 103
      [] Lower(platform) = "linkedin"  -> 95
      [] OTHER                         -> 100

\* the boosts and the penalty of predict_virality, in points
ViralityBoosts(emotions, polarity) ==
    [ emotion_boost |-> Min(Len(emotions) * 3, 15),
      polarity_boost |-> IF Abs(polarity) > 500 THEN 8 ELSE 0,
      positive_boost |-> IF polarity > 600 THEN 12
                         ELSE IF polarity > 300 THEN 8 ELSE 0,
      negative_penalty |-> IF polarity < -600 THEN 18
                           ELSE IF polarity < -300 THEN 10 ELSE 0 ]

\* predict_virality with the clamp taken before the platform multiplier
PredictViralityClampFirst(behavioral_intention, emotions, polarity, platform) ==
    LET b == ViralityBoosts(emotions, polarity)
        pre_multiplier_score ==
            7 * behavioral_intention
            + 1000 * (b.emotion_boost + b.polarity_boost + b.positive_boost
                      - b.negative_penalty)
    IN  PyRound(Max(Min(pre_multiplier_score, 100000), 0) * ViralityMultiplier(platform),
                1000)

\* predict_virality, in hundredths; the product is kept in 1/1000 of a
\* hundredth: (0.7 * intention + boosts) * multiplier
PredictVirality(behavioral_intention, emotions, polarity, platform) ==
    LET b == ViralityBoosts(emotions, polarity)
        pre_multiplier_score ==
            7 * behavioral_intention
            + 1000 * (b.emotion_boost + b.polarity_boost + b.positive_boost
                      - b.negative_penalty)
        virality_score == pre_multiplier_score * ViralityMultiplier(platform)
    IN  PyRound(Max(Min(virality_score, 10000000), 0), 1000)

\* the result of predict_virality with its breakdown
ViralityPrediction(behavioral_intention, emotions, polarity, platform) ==
    [ virality_score |-> PredictVirality(behavioral_intention, emotions, polarity, platform),
      emotion_boost |-> ViralityBoosts(emotions, polarity).emotion_boost,
      polarity_boost |-> ViralityBoosts(emotions, polarity).polarity_boost,
      positive_boost |-> ViralityBoosts(emotions, polarity).positive_boost,
      negative_penalty |-> ViralityBoosts(emotions, polarity).negative_penalty,
      platform_multiplier |-> ViralityMultiplier(platform) ]

\* calculate_exposure_intensity: virality * 0.6 + backlash * 0.4
CalculateExposureIntensity(virality_score, backlash_risk) ==
    PyRound(Min(6 * virality_score + 4 * backlash_risk, 100000), 10)

\* predict_ad_fatigue from the word and hashtag counts of the caption; the
\* sum is kept in tenths of a hundredth
AdFatigueRisk(exposure_intensity, word_count, hashtag_count, sentiment) ==
    LET base_risk == 30
        length_penalty == IF word_count > 100 THEN 25
                          ELSE IF word_count > 50 THEN 15 ELSE 0
        hashtag_penalty == IF hashtag_count > 5 THEN (hashtag_count - 5) * 2 ELSE 0
        subjectivity_penalty == IF sentiment.subjectivity > 700 THEN 20 ELSE 0
        fatigue_risk ==
            1000 * (base_risk + length_penalty + hashtag_penalty + subjectivity_penalty)
            + 3 * exposure_intensity
    IN  PyRound(Min(fatigue_risk, 100000), 10)

\* predict_ad_fatigue
PredictAdFatigue(exposure_intensity, caption, sentiment) ==
    AdFatigueRisk(exposure_intensity, WordCount(caption), CountChar(caption, "#"),
                  sentiment)

\* int(round(x)) of a score in hundredths, kept in hundredths
RoundToPoint(score) == 100 * PyRound(score, 100)

\* predict_all_outcomes from the counts of the caption
AllOutcomes(behavioral_intention, emotions, sentiment, platform, perceived_intent, scs_score, cultural_alerts, word_count, hashtag_count, emc_score) ==
    LET virality == PredictVirality(behavioral_intention, emotions,
                                    sentiment.polarity, platform)
        backlash == PredictBacklash(perceived_intent, scs_score, cultural_alerts,
                                    sentiment.polarity, emc_score)
        exposure == CalculateExposureIntensity(virality, backlash.backlash_risk)
        fatigue == AdFatigueRisk(exposure, word_count, hashtag_count, sentiment)
    IN  [ virality_score |-> RoundToPoint(virality),
          backlash_risk |-> RoundToPoint(backlash.backlash_risk),
          exposure_intensity |-> RoundToPoint(exposure),
          ad_fatigue_risk |-> RoundToPoint(fatigue) ]

\* predict_all_outcomes
PredictAllOutcomes(behavioral_intention, emotions, sentiment, platform, perceived_intent, scs_score, cultural_alerts, caption, emc_score) ==
    AllOutcomes(behavioral_intention, emotions, sentiment, platform, perceived_intent,
                scs_score, cultural_alerts, WordCount(caption),
                CountChar(caption, "#"), emc_score)

---------------------------------------------------------------------------
(* ImageAnalyzer: the vision model is outside the repository; GeminiReply  *)
(* fixes what it answers for the images of the model                       *)

\* what the vision model answers for an image: ok = FALSE when the image
\* data does not decode or the call fails, parsed = FALSE when the answer
\* is no JSON (_parse_gemini_response then gives the empty analysis and
\* _parse_ocr_response the answer itself as the extracted text)
GeminiReply(image) ==
    CASE image = "festive.jpg" ->
            [ ok |-> TRUE, parsed |-> TRUE,
              visual_emotions |-> <<"joy", "warmth">>,
              emotional_tone |-> "vibrant",
              cultural_symbols |-> <<"diya">>,
              festival_references |-> <<"Diwali">>,
              sensitivity_flags |-> <<>>,
              skin_tone_representation |-> "diverse",
              extracted_text |-> <<"great">> ]
      [] image = "fairness.jpg" ->
            [ ok |-> TRUE, parsed |-> TRUE,
              visual_emotions |-> <<"pride">>,
              emotional_tone |-> "warm",
              cultural_symbols |-> <<"alcohol">>,
              festival_references |-> <<>>,
              sensitivity_flags |-> <<"colorism", "stereotype">>,
              skin_tone_representation |-> "only fair",
              extracted_text |-> <<>> ]
      [] image = "garbled.jpg" ->
            [ ok |-> TRUE, parsed |-> FALSE,
              visual_emotions |-> <<>>,
              emotional_tone |-> "",
              cultural_symbols |-> <<>>,
              festival_references |-> <<>>,
              sensitivity_flags |-> <<>>,
              skin_tone_representation |-> "",
              extracted_text |-> <<"something">> ]
      [] OTHER ->
            [ ok |-> FALSE, parsed |-> FALSE,
              visual_emotions |-> <<>>,
              emotional_tone |-> "",
              cultural_symbols |-> <<>>,
              festival_references |-> <<>>,
              sensitivity_flags |-> <<>>,
              skin_tone_representation |-> "",
              extracted_text |-> <<>> ]

\* _calculate_visual_emc, in points
CalculateVisualEmc(analysis) ==
    LET emotion_score == Min(Len(analysis.visual_emotions) * 10, 40)
        tone == analysis.emotional_tone
        tone_score == IF tone \in {"strong", "intense", "powerful", "vibrant"} THEN 30
                      ELSE IF tone \in {"moderate", "positive", "warm"} THEN 20
                      ELSE IF tone \in {"subtle", "calm", "gentle"} THEN 10
                      ELSE 0
        symbols == Len(analysis.cultural_symbols) + Len(analysis.festival_references)
        symbol_score == IF symbols > 0 THEN Min(symbols * 10, 30) ELSE 0
    IN  Min(emotion_score + tone_score + symbol_score, 100)

\* the points of one sensitivity flag in _calculate_visual_scs
FlagScore(flag) ==
    IF flag \in {"colorism", "fair skin", "skin whitening", "religious conflict"} THEN 40
    ELSE IF flag \in {"religious", "political", "caste", "communal"} THEN 30
    ELSE IF flag \in {"cultural appropriation", "stereotype", "insensitive"} THEN 20
    ELSE 10

\* _calculate_visual_scs, in points
CalculateVisualScs(analysis) ==
    LET flags == analysis.sensitivity_flags
        flag_score == SumSeq([i \in DOMAIN flags |-> FlagScore(flags[i])])
        skin_tone == analysis.skin_tone_representation
        skin_score ==
            IF skin_tone \in {"only fair", "only light", "lack of diversity", "colorism"}
            THEN 35
            ELSE IF skin_tone \in {"predominantly fair", "mostly light"} THEN 20
            ELSE 0
        symbols == analysis.cultural_symbols
        controversial ==
            Cardinality({i \in DOMAIN symbols :
                            symbols[i] \in {"beef", "pork", "alcohol", "religious conflict"}})
    IN  Min(flag_score + skin_score + 25 * controversial, 100)

\* analyze_image: the analysis with its two scores, or the error result;
\* error says that the result has the key 'error', error_message is str(e)
AnalyzeImage(image) ==
    LET reply == GeminiReply(image)
    IN  IF reply.ok
        THEN [ none |-> FALSE, error |-> FALSE, error_message |-> "",
               visual_emotions |-> reply.visual_emotions,
               cultural_symbols |-> reply.cultural_symbols,
               sensitivity_flags |-> reply.sensitivity_flags,
               visual_emc_score |-> 100 * CalculateVisualEmc(reply),
               visual_scs_score |-> 100 * CalculateVisualScs(reply) ]
        ELSE [ none |-> FALSE, error |-> TRUE, error_message |-> "vision unavailable",
               visual_emotions |-> <<>>,
               cultural_symbols |-> <<>>,
               sensitivity_flags |-> <<>>,
               visual_emc_score |-> 0,
               visual_scs_score |-> 0 ]

\* extract_text_from_image: extracted_text, empty on an error
ExtractTextFromImage(image) ==
    LET reply == GeminiReply(image)
    IN  IF reply.ok THEN reply.extracted_text ELSE <<>>

\* no image analysis: no image, no analyzer, or an exception in the call
NoImageAnalysis ==
    [ none |-> TRUE, error |-> FALSE, error_message |-> "", visual_emotions |-> <<>>,
      cultural_symbols |-> <<>>, sensitivity_flags |-> <<>>,
      visual_emc_score |-> 0, visual_scs_score |-> 0 ]

---------------------------------------------------------------------------
(* MultiModalFusion *)

\* the emotion names in the order sorted() puts them
SortedEmotionNames == <<"anger", "fear", "humor", "inspiration", "joy",
                        "nostalgia", "pride", "urgency", "warmth">>

\* combine_emotions: sorted(set(text_emotions + visual_emotions))
CombineEmotions(text_emotions, visual_emotions) ==
    LET both == {text_emotions[i] : i \in DOMAIN text_emotions}
                \cup {visual_emotions[i] : i \in DOMAIN visual_emotions}
    IN  SelectSeq(SortedEmotionNames, LAMBDA e : e \in both)

\* modality_agreement of combine_emotions, as the fraction both / of: the
\* text emotions that the visual emotions hold too, over
\* max(len(combined_emotions), 1)
EmotionAgreement(text_emotions, visual_emotions) ==
    LET visual == {visual_emotions[i] : i \in DOMAIN visual_emotions}
    IN  [ both |-> Len(SelectSeq(text_emotions, LAMBDA e : e \in visual)),
          of |-> Max(Len(CombineEmotions(text_emotions, visual_emotions)), 1) ]

\* the symbol and flag names in the order sorted() puts them
SortedSymbolNames == <<"alcohol", "beef", "diya", "rangoli">>
SortedFlagNames == <<"colorism", "stereotype">>

\* combine_cultural_symbols, combine_sensitivity_flags:
\* sorted(set(text + visual))
SortedUnion(order, text_list, visual_list) ==
    LET both == {text_list[i] : i \in DOMAIN text_list}
                \cup {visual_list[i] : i \in DOMAIN visual_list}
    IN  SelectSeq(order, LAMBDA e : e \in both)

\* dict.get(key, default)
Get(d, key, default) == IF key \in DOMAIN d THEN d[key] ELSE default

\* combine_emc_scores with the two modalities weighted alike
CombineEmcScoresEven(text_emc, visual_emc) == PyRound(5 * text_emc + 5 * visual_emc, 10)

\* combine_emc_scores: text * 0.6 + visual * 0.4
CombineEmcScores(text_emc, visual_emc) == PyRound(6 * text_emc + 4 * visual_emc, 10)

\* combine_scs_scores: the worse of the two
CombineScsScores(text_scs, visual_scs) == Max(text_scs, visual_scs)

\* primary_risk_source of combine_scs_scores
PrimaryRiskSource(text_scs, visual_scs) ==
    IF text_scs >= visual_scs THEN "text" ELSE "visual"

\* fuse_analyses passing the image analysis on to the combination whatever
\* it is
FuseAnalysesAlways(text_analysis, image_analysis) ==
    [ mode |-> "multi_modal", has_image_analysis |-> TRUE,
      emc_score |-> CombineEmcScores(text_analysis.emc_score,
                                     image_analysis.visual_emc_score),
      scs_score |-> CombineScsScores(text_analysis.scs_score,
                                     image_analysis.visual_scs_score),
      emotions |-> CombineEmotions(text_analysis.emotions,
                                   image_analysis.visual_emotions) ]

\* fuse_analyses: the text values when there is no image analysis or it has
\* the key 'error', the combination otherwise
FuseAnalyses(text_analysis, image_analysis) ==
    IF image_analysis.none \/ image_analysis.error
    THEN [ mode |-> "text_only", has_image_analysis |-> FALSE,
           emc_score |-> text_analysis.emc_score,
           scs_score |-> text_analysis.scs_score,
           emotions |-> text_analysis.emotions ]
    ELSE [ mode |-> "multi_modal", has_image_analysis |-> TRUE,
           emc_score |-> CombineEmcScores(text_analysis.emc_score,
                                          image_analysis.visual_emc_score),
           scs_score |-> CombineScsScores(text_analysis.scs_score,
                                          image_analysis.visual_scs_score),
           emotions |-> CombineEmotions(text_analysis.emotions,
                                        image_analysis.visual_emotions),
           combined_symbols |->
               SortedUnion(SortedSymbolNames, Get(text_analysis, "cultural_symbols", <<>>),
                           image_analysis.cultural_symbols),
           combined_flags |->
               SortedUnion(SortedFlagNames, Get(text_analysis, "sensitivity_flags", <<>>),
                           image_analysis.sensitivity_flags),
           emotion_agreement |-> EmotionAgreement(text_analysis.emotions,
                                                  image_analysis.visual_emotions),
           primary_risk_source |-> PrimaryRiskSource(text_analysis.scs_score,
                                                     image_analysis.visual_scs_score) ]

\* `image_analysis_result and not image_analysis_result.get('error')`: there
\* is an image analysis and its error, if any, is the empty string
Analyzed(image_analysis) ==
    ~image_analysis.none /\ ~(image_analysis.error /\ image_analysis.error_message # "")

---------------------------------------------------------------------------
(* DataLoader: the historical campaigns, and what the recommendation       *)
(* engine reads from them                                                  *)

\* rows of the historical campaigns file as load_historical_campaigns
\* returns them (virality_score an int, backlash_occurred a bool), in file
\* order
historical_campaigns ==
    <<
      [ brand |-> "Surf Excel", campaign_name |-> "Holi Unity Ad", platform |-> "YouTube",
        backlash_occurred |-> FALSE, virality_score |-> 92, outcome |-> "Success",
        lessons_learned |-> "Positive festival messaging works when authentic and promotes unity" ],
      [ brand |-> "Zomato", campaign_name |-> "Delivery Hero", platform |-> "Instagram",
        backlash_occurred |-> FALSE, virality_score |-> 88, outcome |-> "Success",
        lessons_learned |-> "Relatable everyday heroes resonate well with Indian audiences" ],
      [ brand |-> "Tanishq", campaign_name |-> "Interfaith Baby Shower", platform |-> "Instagram",
        backlash_occurred |-> TRUE, virality_score |-> 85, outcome |-> "Backlash",
        lessons_learned |-> "Interfaith themes polarize - test with focus groups before launch" ],
      [ brand |-> "Dabur", campaign_name |-> "Karva Chauth LGBTQ", platform |-> "Twitter",
        backlash_occurred |-> TRUE, virality_score |-> 78, outcome |-> "Backlash",
        lessons_learned |-> "Traditional festivals + modern values = controversy without careful framing" ],
      [ brand |-> "Manyavar", campaign_name |-> "Kanyamaan Dowry", platform |-> "YouTube",
        backlash_occurred |-> TRUE, virality_score |-> 68, outcome |-> "Mixed",
        lessons_learned |-> "Dowry messaging seen as tone-deaf when brand sells wedding products" ],
      [ brand |-> "Lux", campaign_name |-> "Fair Skin Glow", platform |-> "Instagram",
        backlash_occurred |-> TRUE, virality_score |-> 55, outcome |-> "Backlash",
        lessons_learned |-> "Fair skin messaging triggers colorism backlash - avoid completely" ],
      [ brand |-> "Paytm", campaign_name |-> "Cashless India", platform |-> "Twitter",
        backlash_occurred |-> FALSE, virality_score |-> 73, outcome |-> "Success",
        lessons_learned |-> "Practical utility messaging resonates during relevant moments" ]
    >>

\* load_all_core_data: the three datasets the loader holds from the start
LoadAllCoreData ==
    [ cultural_triggers |-> cultural_triggers,
      festival_calendar |-> festival_calendar,
      historical_campaigns |-> historical_campaigns ]

\* get_campaigns_by_platform: a new list of the rows of the platform
GetCampaignsByPlatform(platform, campaigns) ==
    SelectSeq(campaigns, LAMBDA c : Lower(c.platform) = Lower(platform))

\* the similarity _find_similar_campaigns gives a campaign
Similarity(campaign, high_virality, high_backlash) ==
    (IF (campaign.virality_score >= 60) = high_virality THEN 50 ELSE 0)
    + (IF (campaign.backlash_occurred \/ Lower(campaign.outcome) = "backlash") = high_backlash
       THEN 50 ELSE 0)

\* list.sort(key = similarity, reverse = True): the most similar first,
\* campaigns of equal similarity in the order they had
SortBySimilarity(campaigns, high_virality, high_backlash) ==
    LET of(n) == SelectSeq(campaigns,
                           LAMBDA c : Similarity(c, high_virality, high_backlash) = n)
    IN  of(100) \o of(50) \o of(0)

\* the three most similar campaigns of the platform as the response shows
\* them
SimilarCampaigns(platform, backlash_risk, virality_score, campaigns) ==
    LET sorted == SortBySimilarity(GetCampaignsByPlatform(platform, campaigns),
                                   virality_score >= 6000, backlash_risk >= 5000)
        top == SubSeq(sorted, 1, Min(3, Len(sorted)))
    IN  [i \in DOMAIN top |->
            [ brand |-> top[i].brand, campaign |-> top[i].campaign_name,
              outcome |-> top[i].outcome, lesson |-> top[i].lessons_learned ]]

\* _find_similar_campaigns sorting the list of the loader itself
FindSimilarCampaignsInPlace(platform, backlash_risk, virality_score, campaigns) ==
    [ similar_campaigns |->
          SimilarCampaigns(platform, backlash_risk, virality_score, campaigns),
      historical_campaigns |->
          SortBySimilarity(campaigns, virality_score >= 6000, backlash_risk >= 5000) ]

\* _find_similar_campaigns: the similar campaigns, and the list of the
\* loader after the call (the rows are read, and it is the list of the
\* scored rows that is sorted)
FindSimilarCampaigns(platform, backlash_risk, virality_score, campaigns) ==
    [ similar_campaigns |->
          SimilarCampaigns(platform, backlash_risk, virality_score, campaigns),
      historical_campaigns |-> campaigns ]

---------------------------------------------------------------------------
(* analyze_campaign, steps 1 to 8: what the analyzers read off the text,   *)
(* and the scores computed from it                                         *)

\* steps 1 and 2: the sentiment and emotions of analyze_text, those that
\* calculate_emc_score and calculate_nam_score fetch again, the keyword
\* counts and the alerts; the two caches are threaded through the calls
\* (each stage hands its results to the next as arguments)
ExtractFeatures(caption_text, posting_date, sc, ec) ==
    LET blank == IsBlank(caption_text)
        Features(cleaned, s1, e1, s2, e2, s3, cultural_result) ==
            [ features |->
                [ text |-> caption_text,
                  sentiment |-> s1.value,
                  emotions |-> e1.value,
                  emc_sentiment |-> IF blank THEN NeutralSentiment ELSE s2.value,
                  emc_emotions |-> IF blank THEN <<>> ELSE e2.value,
                  moral_framing |-> DetectMoralFraming(caption_text),
                  violation_score |-> DetectMoralViolations(caption_text),
                  clarity_metrics |->
                      MessageClarity(WordCount(cleaned),
                                     Cardinality(Found(cleaned, abstract_keywords)),
                                     IF blank THEN 0 ELSE CountChar(caption_text, "?"),
                                     Cardinality(Found(cleaned, open_ended_phrases))),
                  metaphor_count |-> Cardinality(Found(cleaned, metaphor_indicators)),
                  detected_triggers |-> cultural_result.detected_triggers,
                  festival_proximity |-> cultural_result.festival_proximity,
                  word_count |-> WordCount(caption_text),
                  hashtag_count |-> CountChar(caption_text, "#") ],
              sentiment_cache |-> s3.cache,
              emotion_cache |-> e2.cache ]
        \* calculate_nam_score and calculate_scs_score
        AfterEmc(s1, e1, s2, e2) ==
            Features(CleanText(caption_text), s1, e1, s2, e2,
                     IF blank THEN s2 ELSE AnalyzeSentiment(caption_text, s2.cache),
                     CalculateScsScore(caption_text, posting_date))
        \* calculate_emc_score
        AfterAnalyzeText(s1, e1) ==
            AfterEmc(s1, e1,
                     IF blank THEN s1 ELSE AnalyzeSentiment(caption_text, s1.cache),
                     IF blank THEN e1 ELSE DetectEmotions(caption_text, e1.cache))
    \* analyze_text
    IN  AfterAnalyzeText(AnalyzeSentiment(caption_text, sc),
                         DetectEmotions(caption_text, ec))

\* steps 4 to 8 on the features: fusion with the image analysis when there
\* is one without error, intent, TPB, outcomes, recommendation (each step
\* hands its result to the next as an argument; read from the bottom up)
Scores(f, platform, influencer, image_analysis) ==
    LET fuse == Analyzed(image_analysis)
        cultural_alerts == f.detected_triggers \o f.festival_proximity
        Result(a, nam_score, intent, tpb, outcomes, recommendation) ==
            [ emc_score |-> a.emc_score,
              emotions |-> a.emotions,
              nam_score |-> nam_score,
              scs_score |-> a.scs_score,
              intent_score |-> intent.intent_score,
              authenticity |-> intent.authenticity,
              manipulation_risk |-> intent.manipulation_risk,
              attitude |-> tpb.attitude,
              subjective_norms |-> tpb.subjective_norms,
              perceived_control |-> tpb.perceived_control,
              behavioral_intention |-> tpb.behavioral_intention,
              virality_score |-> outcomes.virality_score,
              backlash_risk |-> outcomes.backlash_risk,
              ad_fatigue_risk |-> outcomes.ad_fatigue_risk,
              exposure_intensity |-> outcomes.exposure_intensity,
              cultural_alerts |-> cultural_alerts,
              sentiment |-> f.sentiment,
              status |-> recommendation.status,
              action |-> recommendation.action,
              similar_campaigns |->
                  FindSimilarCampaigns(platform, outcomes.backlash_risk,
                                       outcomes.virality_score,
                                       data_loader.historical_campaigns).similar_campaigns ]
        \* step 8
        Recommendation(a, nam_score, intent, tpb, outcomes) ==
            Result(a, nam_score, intent, tpb, outcomes,
                   DetermineStatus(outcomes.backlash_risk, cultural_alerts,
                                   intent.intent_score, outcomes.virality_score))
        \* step 7
        Outcomes(a, nam_score, intent, tpb) ==
            Recommendation(a, nam_score, intent, tpb,
                           AllOutcomes(tpb.behavioral_intention, a.emotions, f.sentiment,
                                       platform, intent.intent_score, a.scs_score,
                                       cultural_alerts, f.word_count, f.hashtag_count,
                                       a.emc_score))
        \* step 6
        Tpb(a, nam_score, intent) ==
            Outcomes(a, nam_score, intent,
                     CalculateTpbScores(f.sentiment, a.emc_score, intent.intent_score,
                                        nam_score, a.emotions, platform, influencer))
        \* step 5
        PerceivedIntent(a, nam_score) ==
            Tpb(a, nam_score,
                CalculatePerceivedIntent(a.emc_score, nam_score, a.scs_score,
                                         f.sentiment, f.text))
        \* step 4
        Fusion(text_analysis, nam_score) ==
            PerceivedIntent(IF fuse THEN FuseAnalyses(text_analysis, image_analysis)
                            ELSE text_analysis,
                            nam_score)
    \* steps 1 and 2: the scores of the text
    IN  Fusion([ emc_score |-> EmcScore(f.emc_sentiment, f.emc_emotions,
                                        f.moral_framing, f.violation_score),
                 scs_score |-> ScsScore(f.detected_triggers, f.festival_proximity),
                 emotions |-> f.emotions ],
               NamScore(f.clarity_metrics, f.metaphor_count))

---------------------------------------------------------------------------
(* RecommendationEngine: suggestions *)

\* one suggestion: its wording and the keywords the wording lists
Suggestion(wording, keywords) == [suggestion |-> wording, keywords |-> keywords]

\* the keywords of the alerts whose severity is sev, as written
KeywordsOf(cultural_alerts, sev) ==
    LET hit(a) == Get(a, "severity", "") = sev
        alerts == SelectSeq(cultural_alerts, hit)
    IN  [i \in DOMAIN alerts |-> Get(alerts[i], "keyword", "")]

\* the suggestions on the alerts
AlertSuggestions(cultural_alerts) ==
    LET critical == KeywordsOf(cultural_alerts, "critical")
        high == KeywordsOf(cultural_alerts, "high")
        categories == {Get(cultural_alerts[i], "category", "") : i \in DOMAIN cultural_alerts}
    IN  (IF critical # <<>>
         THEN <<Suggestion("Remove or rephrase critical triggers", critical)>> ELSE <<>>)
        \o (IF high # <<>>
            THEN <<Suggestion("Consider revising high-risk references", high)>> ELSE <<>>)
        \o (IF "Religious" \in categories
            THEN <<Suggestion("Avoid religious references or ensure they are respectful and inclusive", <<>>)>>
            ELSE <<>>)
        \o (IF "Colorism" \in categories
            THEN <<Suggestion("Remove skin tone references and focus on inclusive beauty standards", <<>>)>>
            ELSE <<>>)
        \o (IF "Geopolitical" \in categories
            THEN <<Suggestion("Avoid geopolitical topics that may polarize audiences", <<>>)>>
            ELSE <<>>)

\* the suggestions on the scores
ScoreSuggestions(backlash_risk, perceived_intent, sentiment, tpb_scores) ==
    (IF perceived_intent < 0
     THEN << Suggestion("Increase authenticity by adding genuine storytelling or user testimonials", <<>>),
             Suggestion("Reduce promotional language and focus on value-driven messaging", <<>>) >>
     ELSE <<>>)
    \o (IF sentiment.polarity < 0
        THEN <<Suggestion("Reframe negative messaging with positive or solution-oriented language", <<>>)>>
        ELSE <<>>)
    \o (IF sentiment.subjectivity > 700
        THEN <<Suggestion("Balance subjective claims with objective facts or data", <<>>)>>
        ELSE <<>>)
    \o (IF tpb_scores.attitude < 5000
        THEN <<Suggestion("Enhance emotional appeal to improve audience attitude toward sharing", <<>>)>>
        ELSE <<>>)
    \o (IF backlash_risk >= 7000
        THEN << Suggestion("Consider major content revision or alternative messaging approach", <<>>),
                Suggestion("Test content with focus groups before posting", <<>>) >>
        ELSE IF backlash_risk >= 5000
        THEN <<Suggestion("Review content with cultural sensitivity experts", <<>>)>>
        ELSE <<>>)

\* _generate_suggestions without the early return on 'go'
GenerateSuggestionsAnyStatus(status, backlash_risk, cultural_alerts, perceived_intent, sentiment, tpb_scores) ==
    AlertSuggestions(cultural_alerts)
    \o ScoreSuggestions(backlash_risk, perceived_intent, sentiment, tpb_scores)

\* _generate_suggestions
GenerateSuggestions(status, backlash_risk, cultural_alerts, perceived_intent, sentiment, tpb_scores) ==
    IF status = "go" THEN <<>>
    ELSE AlertSuggestions(cultural_alerts)
         \o ScoreSuggestions(backlash_risk, perceived_intent, sentiment, tpb_scores)

\* generate_recommendation: the status with its action, and the suggestions
GenerateRecommendation(virality_score, backlash_risk, cultural_alerts, perceived_intent, tpb_scores, sentiment) ==
    LET decision == DetermineStatus(backlash_risk, cultural_alerts, perceived_intent,
                                    virality_score)
    IN  [ status |-> decision.status,
          action |-> decision.action,
          suggestions |-> GenerateSuggestions(decision.status, backlash_risk,
                                              cultural_alerts, perceived_intent,
                                              sentiment, tpb_scores) ]

---------------------------------------------------------------------------
(* analyze_campaign *)

Platforms == {"Instagram", "YouTube", "TikTok", "Twitter"}

\* the response cache holds at most this many entries (100 in the code,
\* scaled down with the number of requests of the model)
MaxResponseCacheSize == 3

\* str(posting_date) and str(influencer) inside the f-string
DateText(posting_date) == IF posting_date = <<>> THEN <<"None">> ELSE posting_date
BoolText(b) == IF b THEN "True" ELSE "False"

\* f"{caption}|{platform}|{posting_date}|{influencer}"; md5 is taken to be
\* injective, so the key is the string itself
ResponseCacheKey(request) ==
    request.caption \o <<"|">> \o <<request.platform>> \o <<"|">>
    \o DateText(request.posting_date) \o <<"|">> \o <<BoolText(request.influencer)>>

BadRequest(detail) == [http |-> 400, detail |-> detail]
ServerError(detail) == [http |-> 500, detail |-> detail]

HasCaption(request) == request.caption # <<>> /\ ~IsBlank(request.caption)
HasImage(request) == request.image # "none"

\* the validation at the head of the handler without the platform check
ValidationErrorCaptionOnly(request) ==
    IF ~HasCaption(request) /\ ~HasImage(request)
    THEN "At least one of caption or image must be provided"
    ELSE ""

\* the validation at the head of the handler: the detail of the 400 it
\* raises, "" for a request it lets through
ValidationError(request) ==
    IF ~HasCaption(request) /\ ~HasImage(request)
    THEN "At least one of caption or image must be provided"
    ELSE IF request.platform \notin Platforms
    THEN "Platform must be one of: Instagram, YouTube, TikTok, Twitter"
    ELSE ""

\* the text the analyzers are given: the stripped caption, or for an image
\* without caption the text read off the image ("Image content" if none)
CaptionText(request, analyzer) ==
    IF ~HasCaption(request) /\ HasImage(request) /\ analyzer
    THEN (IF ExtractTextFromImage(request.image) # <<>>
          THEN ExtractTextFromImage(request.image)
          ELSE <<"Image content">>)
    ELSE IF HasCaption(request) THEN Strip(request.caption)
    ELSE <<>>

\* the handler from the request and the state it finds to the response, the
\* stages it ran and the state it leaves
Handle(request, rc, sc, ec, analyzer) ==
    LET has_caption == HasCaption(request)
        has_image == HasImage(request)
        unchanged(out, stages) ==
            [ out |-> out, stages |-> stages, response_cache |-> rc,
              sentiment_cache |-> sc, emotion_cache |-> ec,
              data_loader |-> data_loader ]
        cacheable == has_caption /\ ~has_image /\ ~request.personas
        cache_key == ResponseCacheKey(request)
        analysis_type == IF has_caption /\ has_image THEN "multimodal"
                         ELSE IF has_image THEN "image_only"
                         ELSE "text_only"
        use_ocr == analysis_type = "image_only" /\ analyzer
        extracted_text == IF use_ocr THEN ExtractTextFromImage(request.image) ELSE <<>>
        \* the response is built and, for a cacheable request, stored;
        \* calculate_emc_score on a blank text returns no 'emotional_intensity',
        \* which the response is built from: KeyError, answered with 500
        Respond(failed, fuse, extracted, response) ==
            LET store == cacheable /\ ~failed
                         /\ Cardinality(DOMAIN rc) < MaxResponseCacheSize
            IN  [ out |-> IF failed THEN ServerError("emotional_intensity") ELSE response,
                  stages |->
                      <<"validate">>
                      \o (IF cacheable THEN <<"cache_lookup">> ELSE <<>>)
                      \o (IF use_ocr THEN <<"ocr">> ELSE <<>>)
                      \o <<"text_analysis", "cultural_sensitivity">>
                      \o (IF has_image /\ analyzer THEN <<"image_analysis">> ELSE <<>>)
                      \o (IF fuse THEN <<"fusion">> ELSE <<>>)
                      \o <<"perceived_intent", "tpb", "outcomes", "recommendation">>
                      \o (IF store THEN <<"cache_store">> ELSE <<>>),
                  response_cache |-> IF store
                                     THEN [k \in DOMAIN rc \cup {cache_key} |->
                                              IF k = cache_key THEN response ELSE rc[k]]
                                     ELSE rc,
                  sentiment_cache |-> extracted.sentiment_cache,
                  emotion_cache |-> extracted.emotion_cache,
                  \* detect_triggers and check_festival_proximity read the
                  \* rows and build alerts of their own
                  data_loader |->
                      [ cultural_triggers |-> data_loader.cultural_triggers,
                        festival_calendar |-> data_loader.festival_calendar,
                        historical_campaigns |->
                            FindSimilarCampaigns(request.platform,
                                                 response.scores.backlash_risk,
                                                 response.scores.virality_score,
                                                 data_loader.historical_campaigns).historical_campaigns ] ]
        \* steps 4 to 8
        Analyze(caption_text, extracted, image_analysis) ==
            Respond(IsBlank(caption_text),
                    Analyzed(image_analysis),
                    extracted,
                    [ http |-> 200,
                      analysis_type |-> analysis_type,
                      scores |-> Scores(extracted.features, request.platform,
                                        request.influencer, image_analysis),
                      image_analysis |-> Analyzed(image_analysis),
                      extracted_text |-> extracted_text ])
        \* steps 1 to 3
        Extract(caption_text) ==
            Analyze(caption_text,
                    ExtractFeatures(caption_text, request.posting_date, sc, ec),
                    IF has_image /\ analyzer THEN AnalyzeImage(request.image)
                    ELSE NoImageAnalysis)
    IN  IF ValidationError(request) # ""
        THEN unchanged(BadRequest(ValidationError(request)), <<"validate">>)
        ELSE IF cacheable /\ cache_key \in DOMAIN rc
        THEN unchanged(rc[cache_key], <<"validate", "cache_lookup">>)
        ELSE Extract(CaptionText(request, analyzer))

---------------------------------------------------------------------------
(* Inputs of the functions called on their own *)

\* alerts as the detector, the festival check and the trigger table produce
\* them; "Critical" is a trigger-table row whose severity is capitalised
UnitAlerts ==
    { [keyword |-> "beef",    severity |-> "critical", risk_weight |-> 40],
      [keyword |-> "pork",    severity |-> "high",     risk_weight |-> 30],
      [keyword |-> "temple",  severity |-> "medium",   risk_weight |-> 15],
      [keyword |-> "gora",    severity |-> "Critical", risk_weight |-> 35],
      [keyword |-> "Colorism Discrimination", severity |-> "critical", risk_weight |-> 200] }

UnitAlertLists == SeqsUpTo(UnitAlerts, MaxAlerts)

\* scores in hundredths of a point, at and around the thresholds of the rules
UnitBacklash == {0, 2400, 2500, 3400, 3500, 6900, 7000, 8500, 10000}
UnitIntent == {-10000, -5001, -5000, -2001, -2000, -1, 0, 1999, 2000, 10000}
UnitVirality == {0, 5400, 5500, 6900, 7000, 9500, 10000}
UnitEmc == {0, 7000, 7001, 8500, 10000}
\* polarity in thousandths
UnitPolarity == {-1000, -301, -300, -1, 0, 500}

UnitTokens == {"dark skin", "problem", "serum", "fair skin", "beautiful",
               "something", "great", " "}
UnitTexts == SeqsUpTo(UnitTokens, MaxTextLen)

NoOut == [x |-> 0]

\* what the analyzers can read off a text, at the ends of each range
UnitSentiments ==
    { [polarity |-> -1000, subjectivity |-> 1000, label |-> "Negative"],
      NeutralSentiment,
      [polarity |-> 1000, subjectivity |-> 1000, label |-> "Positive"] }
UnitMoral ==
    { [moral_framing |-> [has_moral_framing |-> FALSE, moral_keyword_count |-> 0,
                          alignment_score |-> 0],
       violation_score |-> 0],
      [moral_framing |-> [has_moral_framing |-> FALSE, moral_keyword_count |-> 0,
                          alignment_score |-> 0],
       violation_score |-> 30],
      [moral_framing |-> [has_moral_framing |-> TRUE, moral_keyword_count |-> 12,
                          alignment_score |-> 10000],
       violation_score |-> 135] }
UnitClarity ==
    { [clarity_metrics |-> MessageClarity(1, 0, 0, 0), metaphor_count |-> 0],
      [clarity_metrics |-> MessageClarity(1, 4, 3, 2), metaphor_count |-> 6] }
UnitTriggers ==
    { <<>>,
      <<[keyword |-> "Colorism Discrimination", severity |-> "critical",
         risk_weight |-> 200]>>,
      <<[keyword |-> "pork", severity |-> "high", risk_weight |-> 30]>>,
      <<[keyword |-> "temple", severity |-> "medium", risk_weight |-> 15]>> }
UnitFestivalAlerts ==
    { <<>>, <<[festival |-> "Diwali", severity |-> "critical", risk_weight |-> 35]>> }
UnitCounts == { [word_count |-> 1, hashtag_count |-> 0],
                [word_count |-> 120, hashtag_count |-> 30] }
UnitImageAnalyses ==
    { NoImageAnalysis,
      AnalyzeImage("fairness.jpg"),
      AnalyzeImage("garbled.jpg"),
      AnalyzeImage("broken.jpg"),
      [AnalyzeImage("broken.jpg") EXCEPT !.error_message = ""],
      [ none |-> FALSE, error |-> FALSE, error_message |-> "",
        visual_emotions |-> <<"joy", "warmth">>, cultural_symbols |-> <<>>,
        sensitivity_flags |-> <<>>, visual_emc_score |-> 10000,
        visual_scs_score |-> 10000 ],
      \* the vision model may name a thing twice
      [ none |-> FALSE, error |-> FALSE, error_message |-> "",
        visual_emotions |-> <<"pride", "joy", "pride">>,
        cultural_symbols |-> <<"rangoli", "diya", "rangoli">>,
        sensitivity_flags |-> <<"stereotype", "stereotype">>,
        visual_emc_score |-> 5555, visual_scs_score |-> 4000 ] }

\* rows a festival file can hold: keywords declared, none declared, a list
\* ending in ';', a date that does not parse, a row cut short, a far festival
UnitFestivalRows ==
    { << <<"Diwali">>, <<"2025-10-20">>, <<"alcohol", ";", "meat">>, <<"d">> >>,
      << <<"Quiet">>, <<"2025-10-18">>, <<>>, <<"d">> >>,
      << <<"Trail">>, <<"2025-10-14">>, <<"meat", ";">>, <<"d">> >>,
      << <<"Bad">>, <<"20-10-2025">>, <<"alcohol">>, <<"d">> >>,
      << <<"Short">>, <<"2025-10-20">> >>,
      << <<"Holi">>, <<"2025-03-14">>, <<"alcohol">> >> }
UnitFestivalFiles ==
    { [fieldnames |-> h, rows |-> r] :
        h \in {FestivalFields, <<"festival_name", "date_2025", "description">>},
        r \in SeqsUpTo(UnitFestivalRows, MaxRows) }
UnitPostingDates == {<<>>, <<"2025-10-21">>, <<"2025-10-17">>, <<"21-10-2025">>}
UnitContents == {<<>>, <<"great">>, <<"alcohol">>, <<"great", " ", "alcohol">>}

\* rows a trigger file can hold: well formed, a weight that is no number, a
\* row cut short
UnitTriggerRows ==
    { << <<"beef">>, <<"Religious">>, <<"m">>, <<"critical">>, <<"40">> >>,
      << <<"pork">>, <<"Religious">>, <<"m">>, <<"high">>, <<"forty">> >>,
      << <<"temple">>, <<"Religious">>, <<"m">>, <<"medium">>, <<"1", "5">> >>,
      << <<"gora">>, <<"Racial">>, <<"m">> >> }
UnitTriggerFiles ==
    { [fieldnames |-> h, rows |-> r] :
        h \in {TriggerFields, <<"keyword", "category", "severity", "risk_weight">>},
        r \in SeqsUpTo(UnitTriggerRows, MaxRows) }

\* the input a call is about to be applied to
Input(x) == last = [op |-> "input", in |-> x, out |-> NoOut]

ScoresInput ==
    \E t \in {<<"great">>, <<"problem", "transform">>}, s \in UnitSentiments,
       e \in {<<>>, EmotionOrder}, m \in UnitMoral, c \in UnitClarity,
       d \in UnitTriggers, fa \in UnitFestivalAlerts, n \in UnitCounts,
       p \in {"TikTok", "YouTube"}, inf \in BOOLEAN, ia \in UnitImageAnalyses :
        Input([ fn |-> "scores",
                features |->
                    [ text |-> t, sentiment |-> s, emotions |-> e,
                      emc_sentiment |-> s, emc_emotions |-> e,
                      moral_framing |-> m.moral_framing,
                      violation_score |-> m.violation_score,
                      clarity_metrics |-> c.clarity_metrics,
                      metaphor_count |-> c.metaphor_count,
                      detected_triggers |-> d, festival_proximity |-> fa,
                      word_count |-> n.word_count,
                      hashtag_count |-> n.hashtag_count ],
                platform |-> p, influencer |-> inf, image_analysis |-> ia ])

DetermineStatusInput ==
    \E b \in UnitBacklash, a \in UnitAlertLists, i \in UnitIntent, v \in UnitVirality :
        Input([ fn |-> "determine_status", backlash_risk |-> b, cultural_alerts |-> a,
                perceived_intent |-> i, virality_score |-> v ])

DetectCompoundPatternsInput ==
    \E t \in UnitTexts : Input([fn |-> "detect_compound_patterns", text |-> t])

PredictBacklashInput ==
    \E i \in UnitIntent, s \in {0, 10000}, a \in UnitAlertLists,
       p \in UnitPolarity, e \in UnitEmc :
        Input([ fn |-> "predict_backlash", perceived_intent |-> i, scs_score |-> s,
                cultural_alerts |-> a, polarity |-> p, emc_score |-> e ])

\* the text values handed to the fusion
\* behavioural intentions in hundredths, polarities in thousandths at and
\* around the thresholds of predict_virality, and emotion lists up to one
\* emotion past the cap of the boost
PredictViralityInput ==
    \E bi \in {0, 1000, 5000, 6220, 10000},
       n \in 0..6,
       pol \in {-1000, -601, -600, -501, -500, -301, -300, 0, 300, 301, 500, 501,
                 600, 601, 1000},
       p \in {"Instagram", "TikTok", "YouTube", "Twitter", "Facebook", "LinkedIn",
               "TIKTOK", "Threads"} :
        Input([ fn |-> "predict_virality", behavioral_intention |-> bi,
                emotions |-> SubSeq(EmotionOrder, 1, n), polarity |-> pol,
                platform |-> p ])

\* analyses of a text as analyze_campaign hands them to the fusion (each
\* emotion once, as detect_emotions lists them), and analyses that carry
\* cultural symbols and sensitivity flags of the text as well
GenerateRecommendationInput ==
    \E v \in {5400, 5500, 7000}, b \in {0, 2400, 3400, 3500, 5000, 7000},
       a \in { <<>>,
                <<[keyword |-> "temple", category |-> "Religious", severity |-> "medium", risk_weight |-> 15]>>,
                <<[keyword |-> "pork", category |-> "Religious", severity |-> "high", risk_weight |-> 30],
                  [keyword |-> "fair skin", category |-> "Colorism", severity |-> "critical", risk_weight |-> 40]>>,
                <<[keyword |-> "gora", category |-> "Racial", severity |-> "Critical", risk_weight |-> 35]>> },
       i \in {-5001, -1, 0, 1999, 2000}, att \in {4999, 5000},
       st \in { [polarity |-> -1000, subjectivity |-> 1000, label |-> "Negative"],
                 [polarity |-> 0, subjectivity |-> 700, label |-> "Neutral"],
                 [polarity |-> 1000, subjectivity |-> 701, label |-> "Positive"] } :
        Input([ fn |-> "generate_recommendation", virality_score |-> v,
                backlash_risk |-> b, cultural_alerts |-> a, perceived_intent |-> i,
                tpb_scores |-> [attitude |-> att], sentiment |-> st ])

UnitTextAnalyses ==
    { [emc_score |-> e, scs_score |-> c, emotions |-> m] :
        e \in {0, 6109, 10000}, c \in {0, 4000, 10000},
        m \in {<<>>, <<"joy">>, <<"pride", "humor">>} }
    \cup
    { [emc_score |-> 6109, scs_score |-> c, emotions |-> m, cultural_symbols |-> y,
       sensitivity_flags |-> g] :
        c \in {4000, 10000}, m \in {<<"joy", "pride">>, <<"pride", "humor">>},
        y \in {<<"diya">>, <<"alcohol", "diya">>}, g \in {<<>>, <<"colorism">>} }

CalculatePerceivedIntentInput ==
    \E e \in {0, 5500, 8500, 10000}, n \in {0, 6100}, c \in {0, 5000, 5001, 10000},
       st \in UnitSentiments \cup {[polarity |-> 300, subjectivity |-> 0, label |-> "Positive"],
                                   [polarity |-> 301, subjectivity |-> 500, label |-> "Positive"]},
       t \in {<<>>, <<"great">>, <<"problem", "transform">>, <<"ugly", "transform">>,
              <<"problem", "ugly", "transform">>, <<"problem", "ugly">>} :
        Input([ fn |-> "calculate_perceived_intent", emc_score |-> e, nam_score |-> n,
                scs_score |-> c, sentiment |-> st, text |-> t ])

FuseAnalysesInput ==
    \E t \in UnitTextAnalyses, ia \in UnitImageAnalyses :
        Input([fn |-> "fuse_analyses", text_analysis |-> t, image_analysis |-> ia])

CalculateScsScoreInput ==
    \E t \in SeqsUpTo({"dark skin", "problem", "serum", "alcohol", "great", " "}, MaxTextLen),
       d \in UnitPostingDates \cup {<<"2025-10-18">>} :
        Input([fn |-> "calculate_scs_score", text |-> t, posting_date |-> d])

CheckFestivalProximityInput ==
    \E f \in UnitFestivalFiles, d \in UnitPostingDates, c \in UnitContents :
        Input([fn |-> "check_festival_proximity", file |-> f, posting_date |-> d,
               content |-> c])

LoadCulturalTriggersInput ==
    \E f \in UnitTriggerFiles : Input([fn |-> "load_cultural_triggers", file |-> f])

---------------------------------------------------------------------------
(* Calls of the pure functions: the input is drawn at the start, one call  *)
(* applies the function to it                                              *)

Pending(fn) == last.op = "input" /\ last.in.fn = fn

Return(out) ==
    /\ last' = [op |-> last.in.fn, in |-> last.in, out |-> out]
    /\ UNCHANGED <<sentiment_cache, emotion_cache, response_cache, image_analyzer, data_loader>>

DetermineStatusCall ==
    /\ Pending("determine_status")
    /\ Return(DetermineStatus(last.in.backlash_risk, last.in.cultural_alerts,
                              last.in.perceived_intent, last.in.virality_score))

DetectCompoundPatternsCall ==
    /\ Pending("detect_compound_patterns")
    /\ Return([alerts |-> DetectCompoundPatterns(last.in.text)])

PredictBacklashCall ==
    /\ Pending("predict_backlash")
    /\ Return(PredictBacklash(last.in.perceived_intent, last.in.scs_score,
                              last.in.cultural_alerts, last.in.polarity,
                              last.in.emc_score))

ScoresCall ==
    /\ Pending("scores")
    /\ Return(Scores(last.in.features, last.in.platform, last.in.influencer,
                     last.in.image_analysis))

GenerateRecommendationCall ==
    /\ Pending("generate_recommendation")
    /\ Return(GenerateRecommendation(last.in.virality_score, last.in.backlash_risk,
                                     last.in.cultural_alerts, last.in.perceived_intent,
                                     last.in.tpb_scores, last.in.sentiment))

PredictViralityCall ==
    /\ Pending("predict_virality")
    /\ Return(ViralityPrediction(last.in.behavioral_intention, last.in.emotions,
                                 last.in.polarity, last.in.platform))

CalculatePerceivedIntentCall ==
    /\ Pending("calculate_perceived_intent")
    /\ Return(CalculatePerceivedIntent(last.in.emc_score, last.in.nam_score,
                                       last.in.scs_score, last.in.sentiment,
                                       last.in.text))

FuseAnalysesCall ==
    /\ Pending("fuse_analyses")
    /\ Return(FuseAnalyses(last.in.text_analysis, last.in.image_analysis))

CalculateScsScoreCall ==
    /\ Pending("calculate_scs_score")
    /\ Return(CalculateScsScore(last.in.text, last.in.posting_date))

CheckFestivalProximityCall ==
    /\ Pending("check_festival_proximity")
    /\ Return(LoadAndCheckFestivalProximity(last.in.file, last.in.posting_date,
                                            last.in.content))

LoadCulturalTriggersCall ==
    /\ Pending("load_cultural_triggers")
    /\ Return(LoadCulturalTriggers(last.in.file))

InitUnit ==
    /\ data_loader = LoadAllCoreData
    /\ sentiment_cache = EmptyMap
    /\ emotion_cache = EmptyMap
    /\ response_cache = EmptyMap
    /\ image_analyzer = FALSE
    /\ \/ ScoresInput
       \/ DetermineStatusInput
       \/ DetectCompoundPatternsInput
       \/ PredictBacklashInput
       \/ CalculatePerceivedIntentInput
       \/ FuseAnalysesInput
       \/ CalculateScsScoreInput
       \/ CheckFestivalProximityInput
       \/ LoadCulturalTriggersInput
       \/ PredictViralityInput
       \/ GenerateRecommendationInput

NextUnit ==
    \/ DetermineStatusCall
    \/ DetectCompoundPatternsCall
    \/ PredictBacklashCall
    \/ ScoresCall
    \/ CalculatePerceivedIntentCall
    \/ FuseAnalysesCall
    \/ CalculateScsScoreCall
    \/ CheckFestivalProximityCall
    \/ LoadCulturalTriggersCall
    \/ PredictViralityCall
    \/ GenerateRecommendationCall

SpecUnit == InitUnit /\ [][NextUnit]_vars

---------------------------------------------------------------------------
(* The service: requests arrive one after another at one process           *)

\* a request; posting_date <<>> and image "none" stand for None
Request(caption, platform, posting_date, influencer, image, personas) ==
    [ caption |-> caption, platform |-> platform, posting_date |-> posting_date,
      influencer |-> influencer, image |-> image, personas |-> personas ]

Requests ==
    { Request(<<"body", "|", "Instagram", "|", "problem">>, "Instagram",
              <<"2025-01-01">>, FALSE, "none", FALSE),
      Request(<<"body">>, "Instagram",
              <<"problem", "|", "Instagram", "|", "2025-01-01">>, FALSE, "none", FALSE),
      Request(<<"great", "great", "great">>, "Instagram", <<>>, FALSE, "none", FALSE),
      Request(<<"great", "great", "terrible">>, "Instagram", <<>>, FALSE, "none", FALSE),
      Request(<<" ">>, "Instagram", <<>>, FALSE, "none", FALSE),
      Request(<<"great", "|", "Facebook", "|", "x">>, "Instagram", <<>>,
              FALSE, "none", FALSE),
      Request(<<"great">>, "Facebook", <<"x", "|", "Instagram", "|", "None">>,
              FALSE, "none", FALSE),
      Request(<<>>, "TikTok", <<>>, FALSE, "fairness.jpg", FALSE),
      Request(<<"dark skin", "serum">>, "TikTok", <<>>, TRUE, "festive.jpg", FALSE),
      Request(<<"alcohol">>, "YouTube", <<"2025-10-18">>, FALSE, "none", FALSE),
      Request(<<"alcohol">>, "YouTube", <<"18-10-2025">>, FALSE, "none", FALSE),
      Request(<<"great", "great", "great">>, "Instagram", <<>>, FALSE, "broken.jpg", FALSE),
      Request(<<"great", "great", "great">>, "Instagram", <<>>, FALSE, "garbled.jpg", FALSE),
      Request(<<"great">>, "Twitter", <<>>, TRUE, "none", TRUE) }

AnalyzeCampaign ==
    \E request \in Requests :
        \E h \in {Handle(request, response_cache, sentiment_cache, emotion_cache,
                         image_analyzer)} :
            /\ last' = [op |-> "analyze_campaign", in |-> request, out |-> h.out,
                        stages |-> h.stages]
            /\ response_cache' = h.response_cache
            /\ sentiment_cache' = h.sentiment_cache
            /\ emotion_cache' = h.emotion_cache
            /\ data_loader' = h.data_loader
            /\ UNCHANGED image_analyzer

\* initialize_system: the core data loaded, empty caches; the image
\* analyzer exists if an API key is configured
Init ==
    /\ data_loader = LoadAllCoreData
    /\ sentiment_cache = EmptyMap
    /\ emotion_cache = EmptyMap
    /\ response_cache = EmptyMap
    /\ image_analyzer \in BOOLEAN
    /\ last = [op |-> "init", in |-> NoOut, out |-> NoOut, stages |-> <<>>]

Next == AnalyzeCampaign

Spec == Init /\ [][Next]_vars

---------------------------------------------------------------------------
(* One TextAnalyzer called directly *)

SampleTexts ==
    { <<" ">>, <<"great">>, <<"terrible">>, <<"proud", "great">>,
      <<"great", "great", "great">>, <<"great", "great", "terrible">> }

AnalyzeSentimentCall ==
    \E text \in SampleTexts :
        \E r \in {AnalyzeSentiment(text, sentiment_cache)} :
            /\ last' = [op |-> "analyze_sentiment", in |-> text, out |-> r.value]
            /\ sentiment_cache' = r.cache
            /\ UNCHANGED <<emotion_cache, response_cache, image_analyzer, data_loader>>

DetectEmotionsCall ==
    \E text \in SampleTexts :
        \E r \in {DetectEmotions(text, emotion_cache)} :
            /\ last' = [op |-> "detect_emotions", in |-> text, out |-> r.value]
            /\ emotion_cache' = r.cache
            /\ UNCHANGED <<sentiment_cache, response_cache, image_analyzer, data_loader>>

InitText ==
    /\ data_loader = LoadAllCoreData
    /\ sentiment_cache = EmptyMap
    /\ emotion_cache = EmptyMap
    /\ response_cache = EmptyMap
    /\ image_analyzer = FALSE
    /\ last = [op |-> "init", in |-> <<>>, out |-> NoOut]

NextText ==
    \/ AnalyzeSentimentCall
    \/ DetectEmotionsCall

SpecText == InitText /\ [][NextText]_vars

---------------------------------------------------------------------------
(* C1: whenever backlash_risk >= 70, or some alert is critical, or the     *)
(* intent score is below -50, _determine_status answers 'stop', whatever   *)
(* the virality and the other inputs are.                                  *)

StopCondition(in) ==
    \/ in.backlash_risk >= 7000
    \/ \E k \in DOMAIN in.cultural_alerts : in.cultural_alerts[k].severity = "critical"
    \/ in.perceived_intent < -5000

C1_StopOutranks ==
    (last.op = "determine_status" /\ StopCondition(last.in))
        => last.out.status = "stop"

\* the spec's example: backlash 85, virality 95, no alerts
C1_Witness ==
    /\ last.op = "determine_status"
    /\ last.in.backlash_risk = 8500
    /\ last.in.virality_score = 9500
    /\ last.in.cultural_alerts = <<>>
    /\ last.out.status = "stop"

---------------------------------------------------------------------------
(* C5: _determine_status is first-match-wins over the rules, in order:     *)
(* the three stop rules; caution if 35 <= backlash < 70, or a high alert,  *)
(* or -50 <= intent < 20, or (virality < 55 and at least one alert); go    *)
(* "excellent" if virality >= 70 and backlash < 25; go "good" if virality  *)
(* >= 55 and backlash < 35; go "safe" if backlash < 35 and no critical or  *)
(* high alert; otherwise caution.                                          *)

\* does rule n of the list apply to the input
RuleApplies(n, in) ==
    LET b == in.backlash_risk
        i == in.perceived_intent
        v == in.virality_score
        a == in.cultural_alerts
        crit == \E k \in DOMAIN a : Lower(a[k].severity) = "critical"
        high == \E k \in DOMAIN a : Lower(a[k].severity) = "high"
    IN  CASE n = 1 -> b >= 7000 \/ crit \/ i < -5000
          [] n = 2 -> (3500 <= b /\ b < 7000) \/ high \/ (-5000 <= i /\ i < 2000)
                      \/ (v < 5500 /\ Len(a) > 0)
          [] n = 3 -> v >= 7000 /\ b < 2500
          [] n = 4 -> v >= 5500 /\ b < 3500
          [] n = 5 -> b < 3500 /\ ~crit /\ ~high
          [] OTHER -> TRUE

RuleAnswer(n) ==
    CASE n = 1 -> [status |-> "stop", action |-> "Do Not Post"]
      [] n = 2 -> [status |-> "caution", action |-> "Review Required"]
      [] n = 3 -> [status |-> "go", action |-> "Excellent - Post Now!"]
      [] n = 4 -> [status |-> "go", action |-> "Good to Post"]
      [] n = 5 -> [status |-> "go", action |-> "Safe to Post"]
      [] OTHER -> [status |-> "caution", action |-> "Review Required"]

FirstRule(in) == CHOOSE n \in 1..6 : RuleApplies(n, in) /\ \A m \in 1..(n-1) : ~RuleApplies(m, in)

---------------------------------------------------------------------------
(* C7: predict_backlash applies the x1.3 multiplier (compound_effect is    *)
(* true) exactly when at least three of {cultural_risk > 30, intent < -20, *)
(* emc > 70, polarity < -0.3, some alert critical} hold, and the           *)
(* multiplier is applied to the summed score before the cap at 100.        *)

C7_Factors(in) ==
    { f \in {"cultural", "intent", "emc", "polarity", "critical"} :
        \/ f = "cultural" /\ CulturalRisk(in.cultural_alerts) > 300
        \/ f = "intent" /\ in.perceived_intent < -2000
        \/ f = "emc" /\ in.emc_score > 7000
        \/ f = "polarity" /\ in.polarity < -300
        \/ f = "critical" /\ \E k \in DOMAIN in.cultural_alerts :
                                 in.cultural_alerts[k].severity = "critical" }

C7_Base(in) == BacklashBase(in.perceived_intent, in.cultural_alerts, in.polarity, in.emc_score)

C7_CompoundMultiplier ==
    last.op = "predict_backlash" =>
        /\ last.out.compound_effect = (Cardinality(C7_Factors(last.in)) >= 3)
        /\ last.out.backlash_risk <= 10000
        /\ last.out.backlash_risk =
             IF Cardinality(C7_Factors(last.in)) >= 3
             THEN Min(PyRound(13 * C7_Base(last.in), 20), 10000)
             ELSE Min(PyRound(10 * C7_Base(last.in), 20), 10000)

\* a sum below 100 that the multiplier lifts over the cap
C7_Witness ==
    /\ last.op = "predict_backlash"
    /\ Cardinality(C7_Factors(last.in)) >= 3
    /\ last.out.compound_effect
    /\ C7_Base(last.in) < 20000
    /\ 13 * C7_Base(last.in) > 200000
    /\ last.out.backlash_risk = 10000

---------------------------------------------------------------------------
(* C8: detect_compound_patterns reports a pattern only if the text holds   *)
(* at least one primary keyword AND at least one amplifier or solution     *)
(* keyword of that same pattern.                                           *)

C8_CompoundNeedsBoth ==
    last.op = "detect_compound_patterns" =>
        \A k \in DOMAIN last.out.alerts :
            LET pattern_def == HARMFUL_PATTERNS[last.out.alerts[k].pattern_type]
            IN  /\ \E kw \in pattern_def.primary : Contains(last.in.text, kw)
                /\ \E kw \in pattern_def.amplifiers \cup pattern_def.solutions :
                       Contains(last.in.text, kw)

\* a primary inside a longer word ("thin" in "something") with an amplifier
C8_Witness ==
    /\ last.op = "detect_compound_patterns"
    /\ last.in.text = <<"something", "problem">>
    /\ \E k \in DOMAIN last.out.alerts : last.out.alerts[k].pattern_type = "body_shaming"

---------------------------------------------------------------------------
(* C9: a compound alert's risk_weight is base_score x multiplier x         *)
(* min(amplifier_count + solution_count, 2), not clamped per alert: a      *)
(* colorism_discrimination match with two or more companions weighs        *)
(* 40 x 2.5 x 2 = 200.                                                     *)

C9_Companions(text, pattern_def) ==
    Cardinality({kw \in pattern_def.amplifiers : Contains(text, kw)})
    + Cardinality({kw \in pattern_def.solutions : Contains(text, kw)})

C9_RiskWeight ==
    last.op = "detect_compound_patterns" =>
        \A k \in DOMAIN last.out.alerts :
            LET alert == last.out.alerts[k]
                pattern_def == HARMFUL_PATTERNS[alert.pattern_type]
                n == C9_Companions(last.in.text, pattern_def)
            IN  /\ 10 * alert.risk_weight =
                     pattern_def.base_score * pattern_def.multiplier * (IF n < 2 THEN n ELSE 2)
                /\ (alert.pattern_type = "colorism_discrimination" /\ n >= 2)
                       => alert.risk_weight = 200

C9_Witness ==
    /\ last.op = "detect_compound_patterns"
    /\ \E k \in DOMAIN last.out.alerts :
           /\ last.out.alerts[k].pattern_type = "colorism_discrimination"
           /\ last.out.alerts[k].risk_weight = 200

---------------------------------------------------------------------------
(* C2: every 0-100 score of an analysis lies in [0, 100] and the intent    *)
(* score lies in [-100, 100], without an image and fused with an image     *)
(* analysis (scores in hundredths of a point)                              *)

C2_Percent(out) ==
    { out.emc_score, out.nam_score, out.scs_score, out.authenticity,
      out.manipulation_risk, out.attitude, out.subjective_norms,
      out.perceived_control, out.behavioral_intention, out.virality_score,
      out.backlash_risk, out.exposure_intensity, out.ad_fatigue_risk }

C2_ScoresInRange ==
    last.op = "scores" =>
        /\ \A x \in C2_Percent(last.out) : 0 <= x /\ x <= 10000
        /\ -10000 <= last.out.intent_score /\ last.out.intent_score <= 10000

\* a fused analysis in which the caps of SCS, backlash and ad fatigue bite
C2_Witness ==
    /\ last.op = "scores"
    /\ ~last.in.image_analysis.none
    /\ ScsScoreUncapped(last.in.features.detected_triggers,
                        last.in.features.festival_proximity) > 10000
    /\ last.out.scs_score = 10000
    /\ last.out.backlash_risk = 10000
    /\ last.out.ad_fatigue_risk = 10000


---------------------------------------------------------------------------
(* C4: for any sequence of analyze_sentiment and detect_emotions calls on  *)
(* one TextAnalyzer, the value returned for a text is the value computed   *)
(* for that text with empty caches, also for two texts that share the part *)
(* the cache key is taken from.                                            *)

C4_CacheTransparent ==
    /\ last.op = "analyze_sentiment"
           => last.out = AnalyzeSentiment(last.in, EmptyMap).value
    /\ last.op = "detect_emotions"
           => last.out = DetectEmotions(last.in, EmptyMap).value

---------------------------------------------------------------------------
(* C3: the response to a request does not depend on the requests served    *)
(* before it: it is the response the freshly started service gives.        *)

C3_HistoryIndependent ==
    last.op = "analyze_campaign"
        => last.out = Handle(last.in, EmptyMap, EmptyMap, EmptyMap, image_analyzer).out

---------------------------------------------------------------------------
(* C6: a request with neither a non-blank caption nor an image, or with a  *)
(* platform outside the four, is answered with 400 before any stage runs:  *)
(* only the validation ran (no cache lookup, no analyzer), the response    *)
(* cache and the analyzer caches are as they were, and no scores are       *)
(* returned.                                                               *)

C6_Invalid(request) ==
    \/ ~HasCaption(request) /\ ~HasImage(request)
    \/ request.platform \notin {"Instagram", "YouTube", "TikTok", "Twitter"}

C6_RejectedAtBoundary ==
    [][ (last'.op = "analyze_campaign" /\ C6_Invalid(last'.in)) =>
            /\ last'.out.http = 400
            /\ DOMAIN last'.out = {"http", "detail"}
            /\ last'.stages = <<"validate">>
            /\ response_cache' = response_cache
            /\ sentiment_cache' = sentiment_cache
            /\ emotion_cache' = emotion_cache ]_vars

\* a rejected request whose cache key is in the response cache
C6_Witness ==
    /\ last.op = "analyze_campaign"
    /\ C6_Invalid(last.in)
    /\ last.out.http = 400
    /\ ResponseCacheKey(last.in) \in DOMAIN response_cache

---------------------------------------------------------------------------
(* C10: every accepted request whose analysed text triggers a compound     *)
(* harmful pattern is answered with recommendation status 'stop'.          *)

C10_CompoundStops ==
    ( /\ last.op = "analyze_campaign"
      /\ last.out.http = 200
      /\ DetectCompoundPatterns(CaptionText(last.in, image_analyzer)) # <<>> )
        => last.out.scores.status = "stop"

---------------------------------------------------------------------------
(* C11 *)

\* a keyword occurs in the text
C11_Appears(content, kw) == \E i \in DOMAIN content : kw \in Within(content[i])

\* the festivals of the loaded calendar an alert can be about
C11_FestivalsOf(calendar, alert) ==
    {i \in DOMAIN calendar :
        /\ calendar[i].festival_name = alert.festival
        /\ calendar[i].date_2025 = alert.festival_date}

\* the keywords a festival declares: the non-empty entries of its list
C11_Declared(festival) ==
    {festival.sensitivity_keywords[k] : k \in DOMAIN festival.sensitivity_keywords} \ {""}

\* C11: every alert of check_festival_proximity is about a festival of the
\* dataset at most 7 days from the posting date, one of whose declared
\* sensitivity keywords occurs in the text; proximity alone gives no alert,
\* whatever records the dataset holds
C11_AlertNeedsKeyword ==
    last.op = "check_festival_proximity" =>
        \A a \in DOMAIN last.out.alerts :
            /\ Abs(DayOfYear(last.out.alerts[a].festival_date)
                   - DayOfYear(last.in.posting_date[1])) <= 7
            /\ \E i \in C11_FestivalsOf(last.out.calendar, last.out.alerts[a]) :
                 \E kw \in C11_Declared(last.out.calendar[i]) :
                     C11_Appears(last.in.content, kw)

---------------------------------------------------------------------------
(* C12 *)

\* what one alert adds: its risk weight, and 10 more when its severity is
\* critical or high
RECURSIVE C12_Total(_)
C12_Total(alerts) ==
    IF alerts = <<>> THEN 0
    ELSE Head(alerts).risk_weight
         + (IF Head(alerts).severity \in {"critical", "high"} THEN 10 ELSE 0)
         + C12_Total(Tail(alerts))

\* C12: the SCS score of calculate_scs_score is min(100, the sum of the risk
\* weights of the returned trigger and festival alerts + 10 for each returned
\* alert of critical or high severity)
C12_ScsAggregation ==
    last.op = "calculate_scs_score" =>
        last.out.scs_score =
            100 * Min(100, C12_Total(last.out.detected_triggers)
                           + C12_Total(last.out.festival_proximity))

\* a trigger and a festival alert are returned and the sum stays under the cap
C12_Witness ==
    /\ last.op = "calculate_scs_score"
    /\ last.out.detected_triggers # <<>>
    /\ last.out.festival_proximity # <<>>
    /\ last.out.scs_score = 6500

\* the sum passes 100 and the score is held at the cap
C12_WitnessCapped ==
    /\ last.op = "calculate_scs_score"
    /\ C12_Total(last.out.detected_triggers) > 100
    /\ last.out.scs_score = 10000

---------------------------------------------------------------------------
(* C13 *)

---------------------------------------------------------------------------
(* C14 *)

\* the vision analysis of an image fails: the call raises (and the analyzer
\* returns its error result), or the answer is not parseable
C14_VisionFails(image) == ~GeminiReply(image).ok \/ ~GeminiReply(image).parsed

\* the EMC, the SCS and the emotions read off the text of a request
C14_TextSignals(f) ==
    [ emc_score |-> EmcScore(f.emc_sentiment, f.emc_emotions, f.moral_framing,
                             f.violation_score),
      scs_score |-> ScsScore(f.detected_triggers, f.festival_proximity),
      emotions |-> f.emotions ]

C14_TextSignalsOf(request) ==
    C14_TextSignals(ExtractFeatures(CaptionText(request, image_analyzer),
                                    request.posting_date, sentiment_cache,
                                    emotion_cache).features)

\* C14: a request whose vision analysis fails is still answered, and the
\* EMC, the SCS and the emotions that the intent, TPB, outcome and
\* recommendation stages work on (and the response reports) are those of the
\* text alone
C14_DegradesToTextOnly ==
    (/\ last.op = "analyze_campaign"
     /\ image_analyzer
     /\ ValidationError(last.in) = ""
     /\ HasImage(last.in)
     /\ C14_VisionFails(last.in.image)) =>
        /\ last.out.http = 200
        /\ last.out.scores.emc_score = C14_TextSignalsOf(last.in).emc_score
        /\ last.out.scores.scs_score = C14_TextSignalsOf(last.in).scs_score
        /\ last.out.scores.emotions = C14_TextSignalsOf(last.in).emotions

---------------------------------------------------------------------------
(* C15, C18.  analyze_campaign is a coroutine without a suspension point   *)
(* and the analyzers are called from it alone, so concurrent requests      *)
(* interleave as whole handlers: the behaviours of Spec are the            *)
(* interleavings.                                                          *)

\* a step leaves a cache within its capacity
C15_WithinCapacity(cache, capacity) == Cardinality(DOMAIN cache) <= capacity

\* a step keeps every entry of a cache under its key with its value
C15_Kept(before, after) ==
    \A k \in DOMAIN before : k \in DOMAIN after /\ after[k] = before[k]

\* C15: under any interleaving of requests the two caches of the text
\* analyzer and the response cache are insert-if-absent caches: they stay
\* within their capacities, the value stored under a key never changes, and
\* every request gets the response computed for its own input
C15_InsertIfAbsent ==
    [][ /\ C15_WithinCapacity(sentiment_cache', MaxCacheSize)
        /\ C15_WithinCapacity(emotion_cache', MaxCacheSize)
        /\ C15_WithinCapacity(response_cache', MaxResponseCacheSize)
        /\ C15_Kept(sentiment_cache, sentiment_cache')
        /\ C15_Kept(emotion_cache, emotion_cache')
        /\ C15_Kept(response_cache, response_cache')
        /\ last'.op = "analyze_campaign" =>
             last'.out = Handle(last'.in, EmptyMap, EmptyMap, EmptyMap,
                                image_analyzer).out ]_vars

\* a step adds nothing to a cache that is at its capacity, and removes or
\* replaces nothing
C18_Step(before, after, capacity) ==
    /\ Cardinality(DOMAIN after) <= capacity
    /\ Cardinality(DOMAIN before) = capacity => DOMAIN after = DOMAIN before
    /\ \A k \in DOMAIN before : k \in DOMAIN after /\ after[k] = before[k]

\* C18: the caches are insert-until-full without eviction: the sentiment and
\* the emotion cache never hold more than their capacity, nor the response
\* cache more than its own; a cache at capacity gets no new entry; no entry
\* is ever removed or replaced by another value
C18_InsertUntilFull ==
    [][ /\ C18_Step(sentiment_cache, sentiment_cache', MaxCacheSize)
        /\ C18_Step(emotion_cache, emotion_cache', MaxCacheSize)
        /\ C18_Step(response_cache, response_cache', MaxResponseCacheSize) ]_vars

\* the three caches are full and a request whose keys they do not hold has
\* just been analysed
C18_Witness ==
    /\ last.op = "analyze_campaign"
    /\ last.out.http = 200
    /\ Cardinality(DOMAIN sentiment_cache) = MaxCacheSize
    /\ Cardinality(DOMAIN emotion_cache) = MaxCacheSize
    /\ Cardinality(DOMAIN response_cache) = MaxResponseCacheSize
    /\ last.stages[2] = "cache_lookup"
    /\ ResponseCacheKey(last.in) \notin DOMAIN response_cache
    /\ CacheKey(CaptionText(last.in, image_analyzer)) \notin DOMAIN sentiment_cache
    /\ CacheKey(CaptionText(last.in, image_analyzer)) \notin DOMAIN emotion_cache

---------------------------------------------------------------------------
(* C16 *)

\* the rows of a file that have all the fields the loader reads
C16_WellFormed(file, fields) == {i \in DOMAIN file.rows : Len(file.rows[i]) >= fields}

\* the festivals of a calendar whose date parses
C16_Dated(calendar) == SelectSeq(calendar, LAMBDA f : DayOfYear(f.date_2025) # 0)

\* C16: a missing or malformed row of a dataset is skipped or defaulted by
\* itself and never aborts the batch: loading a trigger or festival file with
\* a bad row still gives every well-formed row, and a festival whose date
\* does not parse does not stop the proximity check of the others
C16_BadRowSkipped ==
    /\ (last.op = "load_cultural_triggers" /\ last.in.file.fieldnames = TriggerFields
        /\ last.in.file.rows # <<>>) =>
            /\ ~last.out.raised
            /\ \A i \in C16_WellFormed(last.in.file, 5) :
                 \E j \in DOMAIN last.out.data :
                    last.out.data[j].keyword = Join(last.in.file.rows[i][1])
    /\ (last.op = "check_festival_proximity" /\ last.in.file.fieldnames = FestivalFields
        /\ last.in.file.rows # <<>>) =>
            /\ ~last.out.raised
            /\ \A i \in C16_WellFormed(last.in.file, 3) :
                 \E j \in DOMAIN last.out.calendar :
                    last.out.calendar[j].festival_name = Join(last.in.file.rows[i][1])
            /\ last.out.alerts = FestivalAlerts(C16_Dated(last.out.calendar),
                                                last.in.posting_date, last.in.content)

---------------------------------------------------------------------------
(* C17 *)

\* the request with its posting date left out
C17_Undated(request) == [request EXCEPT !.posting_date = <<>>]

\* the posting date of a request is given and is no date
C17_InvalidDate(request) ==
    /\ request.posting_date # <<>>
    /\ ~(Len(request.posting_date) = 1 /\ DayOfYear(request.posting_date[1]) # 0)

\* C17: a posting date that does not parse is no error: a request that is
\* analysed with one is answered, gets no festival alert, and its trigger
\* alerts, SCS and every later score are those of the same request without
\* a posting date
C17_InvalidDateIgnored ==
    (/\ last.op = "analyze_campaign"
     /\ C17_InvalidDate(last.in)
     /\ ValidationError(last.in) = ""
     /\ "cultural_sensitivity" \in {last.stages[i] : i \in DOMAIN last.stages}) =>
        /\ last.out.http = 200
        /\ \A i \in DOMAIN last.out.scores.cultural_alerts :
              "festival" \notin DOMAIN last.out.scores.cultural_alerts[i]
        /\ last.out.scores = Handle(C17_Undated(last.in), EmptyMap, sentiment_cache,
                                    emotion_cache, image_analyzer).out.scores

\* a text with a festival keyword was analysed under a posting date that is
\* no date, and with that date read as a date it would have had an alert
C17_Witness ==
    /\ last.op = "analyze_campaign"
    /\ C17_InvalidDate(last.in)
    /\ last.out.http = 200
    /\ last.stages[Len(last.stages)] = "cache_store"
    /\ last.in.caption = <<"alcohol">>
    /\ last.out.scores.cultural_alerts # <<>>
    /\ last.out.scores.scs_score = 2000

---------------------------------------------------------------------------
(* C19 *)

RECURSIVE C19_Weights(_)
C19_Weights(alerts) ==
    IF alerts = <<>> THEN 0 ELSE Head(alerts).risk_weight + C19_Weights(Tail(alerts))

\* the severity multiplier, in tenths
C19_Multiplier(alerts) ==
    IF \E i \in DOMAIN alerts : alerts[i].severity = "critical" THEN 15
    ELSE IF \E i \in DOMAIN alerts : alerts[i].severity = "high" THEN 13
    ELSE 10

\* the intent tier
C19_Tier(intent) ==
    CASE intent < -5000 -> 100
      [] intent >= -5000 /\ intent < -2000 -> 80
      [] intent >= -2000 /\ intent < 0 -> 60
      [] intent >= 0 /\ intent < 2000 -> 40
      [] intent >= 2000 -> 20

\* 0.30 cultural_component + 0.40 tier + 0.15 emc_component
\* + 0.15 sentiment_component, in 1/200 of a point, with
\*   cultural_component = min(100, weights * multiplier / 150 * 100)
\*   emc_component = (emc - 70) / 30 * 100 above 70, 0 up to 70
\*   sentiment_component = 100 |polarity| below 0, 0 from 0 on
C19_Sum(in) ==
    Min(6000, 4 * C19_Weights(in.cultural_alerts) * C19_Multiplier(in.cultural_alerts))
    + 80 * C19_Tier(in.perceived_intent)
    + (IF in.emc_score > 7000 THEN in.emc_score - 7000 ELSE 0)
    + (IF in.polarity < 0 THEN -3 * in.polarity ELSE 0)

\* C19: the backlash score that predict_backlash gives to the compound rule
\* is 0.30 x cultural component + 0.40 x intent tier + 0.15 x EMC component
\* + 0.15 x sentiment component, the cultural component being the weights
\* times 1.5 (a critical alert), 1.3 (a high one) or 1.0, over 150, capped at
\* 100; the tiers 100, 80, 60, 40, 20 at -50, -20, 0, 20; EMC counting above
\* 70 only and polarity below 0 only
C19_BacklashFormula ==
    last.op = "predict_backlash" =>
        last.out.backlash_risk =
            PyRound(Min((IF last.out.compound_effect THEN 13 ELSE 10) * C19_Sum(last.in),
                        200000), 20)

\* a high alert without a critical one, the tier 60, an EMC above 70 and a
\* negative polarity, no compound effect: 0.3 * 26 + 0.4 * 60 + 7.5 + 4.5
C19_Witness ==
    /\ last.op = "predict_backlash"
    /\ C19_Multiplier(last.in.cultural_alerts) = 13
    /\ C19_Weights(last.in.cultural_alerts) = 30
    /\ last.in.perceived_intent = -1
    /\ last.in.emc_score = 8500
    /\ last.in.polarity = -300
    /\ ~last.out.compound_effect
    /\ last.out.backlash_risk = 4380

---------------------------------------------------------------------------
(* C20 *)

\* a rule of the table fires: the text holds a keyword of each of its lists
C20_Fires(in, name) ==
    /\ \E k \in MANIPULATION_PATTERNS[name].first : \E i \in DOMAIN in.text :
          k \in Within(in.text[i])
    /\ \E k \in MANIPULATION_PATTERNS[name].second : \E i \in DOMAIN in.text :
          k \in Within(in.text[i])

\* the rule on a high SCS under a positive sentiment fires; like the rules
\* of the table it is tried on a text that is not blank
C20_FiresPositiveFraming(in) ==
    /\ \E i \in DOMAIN in.text : in.text[i] # " "
    /\ in.scs_score > 5000
    /\ in.sentiment.polarity > 300

\* the penalties of the rules that fire
C20_Penalties(in) ==
    (IF C20_Fires(in, "insecurity_exploitation") THEN 40 ELSE 0)
    + (IF C20_Fires(in, "fear_based_selling") THEN 35 ELSE 0)
    + (IF C20_Fires(in, "shame_based_marketing") THEN 45 ELSE 0)
    + (IF C20_Fires(in, "false_causation") THEN 50 ELSE 0)
    + (IF C20_FiresPositiveFraming(in) THEN 25 ELSE 0)

\* C20: calculate_perceived_intent adds the penalties of all the manipulation
\* rules that fire to the base manipulation score and clamps the sum to 100;
\* the intent score is the authenticity less that clamped manipulation,
\* clamped to [-100, 100]; the manipulation risk reported is the clamped one
C20_PenaltiesThenClamp ==
    last.op = "calculate_perceived_intent" =>
        /\ last.out.manipulation_risk =
             Min(10000, CalculateManipulationRisk(last.in.scs_score, last.in.emc_score,
                                                  last.in.sentiment)
                        + 100 * C20_Penalties(last.in))
        /\ last.out.intent_score =
             Max(-10000, Min(10000, last.out.authenticity - last.out.manipulation_risk))

\* three rules fire, their penalties pass 100 and the manipulation reported
\* is 100
C20_Witness ==
    /\ last.op = "calculate_perceived_intent"
    /\ C20_Penalties(last.in) = 110
    /\ last.out.manipulation_risk = 10000
    /\ last.out.authenticity > 0
    /\ last.out.intent_score = last.out.authenticity - 10000

---------------------------------------------------------------------------
(* C21: the rules of detect_manipulation_patterns *)

\* the penalty a rule of the table contributes: its fixed penalty when both
\* of its keyword lists have a hit in the text, nothing otherwise
C21_RulePenalty(in, name) ==
    IF C20_Fires(in, name) THEN MANIPULATION_PATTERNS[name].penalty ELSE 0

\* the penalty of positive_harmful_framing: 25 exactly when scs > 50 and
\* polarity > 0.3
C21_FramingPenalty(in) ==
    IF in.scs_score > 5000 /\ in.sentiment.polarity > 300 THEN 25 ELSE 0

\* the number of rules that fire, each counted once
C21_Fired(in) ==
    Cardinality({name \in DOMAIN MANIPULATION_PATTERNS : C20_Fires(in, name)})
    + (IF C21_FramingPenalty(in) = 25 THEN 1 ELSE 0)

\* C21: a manipulation rule contributes its fixed penalty if and only if
\* both its trigger set and its companion set have a hit in the text, each
\* rule contributes at most once, positive_harmful_framing adds 25 if and
\* only if scs > 50 and polarity > 0.3, and total_penalty is the sum of the
\* penalties of the rules that fired.
C21_PenaltyIffFired ==
    last.op = "calculate_perceived_intent" =>
        /\ last.out.manipulation_patterns.total_penalty =
               C21_RulePenalty(last.in, "insecurity_exploitation")
               + C21_RulePenalty(last.in, "fear_based_selling")
               + C21_RulePenalty(last.in, "shame_based_marketing")
               + C21_RulePenalty(last.in, "false_causation")
               + C21_FramingPenalty(last.in)
        /\ last.out.manipulation_patterns.patterns_found = C21_Fired(last.in)
        /\ last.out.manipulation_patterns.manipulation_detected = (C21_Fired(last.in) > 0)

---------------------------------------------------------------------------
(* C22: the virality formula *)

\* the sum before the platform multiplier, in tenths of a hundredth
C22_Sum(in) ==
    7 * in.behavioral_intention
    + 1000 * Min(3 * Len(in.emotions), 15)
    + (IF Abs(in.polarity) > 500 THEN 8000 ELSE 0)
    + (IF in.polarity > 600 THEN 12000 ELSE IF in.polarity > 300 THEN 8000 ELSE 0)
    - (IF in.polarity < -600 THEN 18000 ELSE IF in.polarity < -300 THEN 10000 ELSE 0)

\* the platforms with a multiplier of their own
C22_KnownPlatforms ==
    {"instagram", "tiktok", "youtube", "twitter", "facebook", "linkedin"}

C22_WitnessClamped ==
    /\ last.op = "predict_virality"
    /\ last.in.platform = "Threads"
    /\ C22_Sum(last.in) = 105000
    /\ last.out.virality_score = 10000

---------------------------------------------------------------------------
(* C23: the fusion of a text analysis with a valid image analysis *)

\* the image analysis is there and has no error flag
C23_Valid(image_analysis) == ~image_analysis.none /\ ~image_analysis.error

C23_Set(list) == {list[i] : i \in DOMAIN list}

\* out lists every element of either list, each once
C23_IsUnion(out, text_list, visual_list) ==
    /\ C23_Set(out) = C23_Set(text_list) \cup C23_Set(visual_list)
    /\ Cardinality(C23_Set(out)) = Len(out)

\* the fraction both / of equals |intersection| / |union| of the two
\* emotion sets, 0 when both are empty, and lies in [0,1]
C23_Agreement(ratio, text_emotions, visual_emotions) ==
    LET common == C23_Set(text_emotions) \cap C23_Set(visual_emotions)
        all == C23_Set(text_emotions) \cup C23_Set(visual_emotions)
    IN  /\ ratio.of > 0
        /\ 0 <= ratio.both /\ ratio.both <= ratio.of
        /\ IF all = {} THEN ratio.both = 0
           ELSE ratio.both * Cardinality(all) = Cardinality(common) * ratio.of

\* C23: with a valid visual signal, fuse_analyses returns mode multi_modal
\* with EMC = 0.6 x text EMC + 0.4 x visual EMC (to the hundredth), SCS =
\* the larger of the text SCS and the visual SCS together with the modality
\* that was higher, emotions, cultural symbols and sensitivity flags equal
\* to the duplicate-free union of both modalities, and an agreement ratio
\* equal to |intersection| / |union| of the two emotion sets (0 when both
\* are empty), which lies in [0,1].
C23_MultiModalFusion ==
    (last.op = "fuse_analyses" /\ C23_Valid(last.in.image_analysis)) =>
        /\ last.out.mode = "multi_modal"
        /\ Abs(10 * last.out.emc_score
               - (6 * last.in.text_analysis.emc_score
                  + 4 * last.in.image_analysis.visual_emc_score)) <= 5
        /\ last.out.scs_score = Max(last.in.text_analysis.scs_score,
                                    last.in.image_analysis.visual_scs_score)
        /\ last.out.primary_risk_source \in {"text", "visual"}
        /\ last.in.text_analysis.scs_score > last.in.image_analysis.visual_scs_score
               => last.out.primary_risk_source = "text"
        /\ last.in.text_analysis.scs_score < last.in.image_analysis.visual_scs_score
               => last.out.primary_risk_source = "visual"
        /\ C23_IsUnion(last.out.emotions, last.in.text_analysis.emotions,
                       last.in.image_analysis.visual_emotions)
        /\ C23_IsUnion(last.out.combined_symbols,
                       Get(last.in.text_analysis, "cultural_symbols", <<>>),
                       last.in.image_analysis.cultural_symbols)
        /\ C23_IsUnion(last.out.combined_flags,
                       Get(last.in.text_analysis, "sensitivity_flags", <<>>),
                       last.in.image_analysis.sensitivity_flags)
        /\ C23_Agreement(last.out.emotion_agreement, last.in.text_analysis.emotions,
                         last.in.image_analysis.visual_emotions)

\* a text of pride and humor without cultural risk meets an image whose
\* analysis names pride twice and carries the higher SCS: one emotion of
\* three is shared
C23_Witness ==
    /\ last.op = "fuse_analyses"
    /\ last.in.text_analysis = [emc_score |-> 6109, scs_score |-> 0,
                                emotions |-> <<"pride", "humor">>]
    /\ last.in.image_analysis.visual_emotions = <<"pride", "joy", "pride">>
    /\ last.out.mode = "multi_modal"
    /\ last.out.emc_score = 5887
    /\ last.out.scs_score = 4000
    /\ last.out.primary_risk_source = "visual"
    /\ last.out.emotions = <<"humor", "joy", "pride">>
    /\ last.out.combined_symbols = <<"diya", "rangoli">>
    /\ last.out.emotion_agreement = [both |-> 1, of |-> 3]

---------------------------------------------------------------------------
(* C24: no suggestions with a go *)

\* C24: suggestions are generated only for the statuses that are not go:
\* whenever generate_recommendation returns the status 'go' its list of
\* suggestions is empty, whatever alerts, intent, sentiment and TPB scores
\* were supplied.
C24_NoSuggestionsOnGo ==
    (last.op = "generate_recommendation" /\ last.out.status = "go") =>
        last.out.suggestions = <<>>

\* a go for a campaign that a caution would have been given suggestions on
\* its religious alert, its negative and subjective wording and the low
\* attitude
C24_Witness ==
    /\ last.op = "generate_recommendation"
    /\ last.out.status = "go"
    /\ last.out.suggestions = <<>>
    /\ last.in.cultural_alerts # <<>>
    /\ last.in.sentiment.polarity < 0
    /\ last.in.sentiment.subjectivity > 700
    /\ last.in.tpb_scores.attitude < 5000
    /\ Len(GenerateSuggestions("caution", last.in.backlash_risk, last.in.cultural_alerts, last.in.perceived_intent, last.in.sentiment, last.in.tpb_scores)) = 4

---------------------------------------------------------------------------
(* C25: the datasets are read, never written *)

\* C25: processing any sequence of analysis requests leaves the loaded
\* trigger, festival and historical-campaign datasets unchanged: after the
\* first load no stage of the pipeline (trigger matching, festival
\* proximity, historical matching) adds, removes or modifies a row, and
\* every request sees the same contents.
C25_DatasetsUnchanged ==
    [][ /\ data_loader'.cultural_triggers = data_loader.cultural_triggers
        /\ data_loader'.festival_calendar = data_loader.festival_calendar
        /\ data_loader'.historical_campaigns = data_loader.historical_campaigns
        /\ data_loader' = LoadAllCoreData ]_vars

\* a request answered after others: its text matched a trigger, the
\* historical matching gave campaigns in another order than the file has
\* them, and the datasets are those that were loaded
C25_Witness ==
    /\ last.op = "analyze_campaign"
    /\ last.out.http = 200
    /\ Cardinality(DOMAIN response_cache) >= 2
    /\ last.out.scores.cultural_alerts # <<>>
    /\ Len(last.out.scores.similar_campaigns) = 3
    /\ last.out.scores.similar_campaigns[2].brand = "Lux"
    /\ last.out.scores.similar_campaigns[3].brand = "Tanishq"
    /\ data_loader = LoadAllCoreData

---------------------------------------------------------------------------
(* C26: what a go guarantees *)

\* some alert has the severity sev, in whatever letter case
C26_HasSeverity(alerts, sev) ==
    \E k \in DOMAIN alerts : Lower(alerts[k].severity) = sev

---------------------------------------------------------------------------
(* C29: the fallback of _determine_status *)

---------------------------------------------------------------------------
(* C27: one reading of the severity in every component *)

\* C27: an alert counts as critical (as high) for the severity multiplier
\* and the risk factors of predict_backlash exactly when it counts as
\* critical (as high) for the stop and caution rules of _determine_status
\* and for the norm violations of calculate_scs_score, whatever the letter
\* case of the severity in the trigger dataset.
C27_SameSeverityReading ==
    last.op = "predict_backlash" =>
        /\ (last.out.critical_alerts > 0) <=> HasSeverity(last.in.cultural_alerts, "critical")
        /\ (last.out.high_alerts > 0) <=> HasSeverity(last.in.cultural_alerts, "high")
        /\ last.out.critical_alerts + last.out.high_alerts = NormViolations(last.in.cultural_alerts)
        /\ last.out.severity_multiplier =
               IF HasSeverity(last.in.cultural_alerts, "critical") THEN 15
               ELSE IF HasSeverity(last.in.cultural_alerts, "high") THEN 13
               ELSE 10

---------------------------------------------------------------------------
(* C30: predict_backlash and its scs_score *)

\* the scs_score values the calls are compared under, in hundredths
C30_ScsScores == {0, 4000, 10000}

\* C30: predict_backlash does not depend on its scs_score argument: a call
\* that differs from the one made only in scs_score returns the same
\* backlash_risk and the same compound_effect.
C30_ScsScoreUnread ==
    last.op = "predict_backlash" =>
        \A s \in C30_ScsScores :
            LET other == PredictBacklash(last.in.perceived_intent, s, last.in.cultural_alerts, last.in.polarity, last.in.emc_score)
            IN  /\ other.backlash_risk = last.out.backlash_risk
                /\ other.compound_effect = last.out.compound_effect

\* a call with the highest scs_score, a compound effect and a backlash
\* under the cap
C30_Witness ==
    /\ last.op = "predict_backlash"
    /\ last.in.scs_score = 10000
    /\ last.in.cultural_alerts # <<>>
    /\ last.out.compound_effect
    /\ last.out.backlash_risk < 10000

---------------------------------------------------------------------------
(* C28: the key of the response cache *)

\* two requests agree on what the cache key is built from
C28_SameFields(a, b) ==
    /\ a.caption = b.caption
    /\ a.platform = b.platform
    /\ a.posting_date = b.posting_date
    /\ a.influencer = b.influencer

\* an accepted request the handler looks up in (and stores into) the cache
C28_Cached(request) ==
    /\ ValidationError(request) = ""
    /\ HasCaption(request) /\ ~HasImage(request) /\ ~request.personas

\* the last request was answered out of the response cache
C28_ServedFromCache ==
    /\ last.op = "analyze_campaign"
    /\ last.stages = <<"validate", "cache_lookup">>

\* C28: a response served from the response cache was computed for a
\* request with the same caption, platform, posting date and influencer
\* flag: an accepted request that maps to the key of the request served, and
\* whose response is the one served, differs from it in none of the four.
C28_KeyTellsRequestsApart ==
    C28_ServedFromCache =>
        \A other \in Requests :
            (/\ C28_Cached(other)
             /\ ResponseCacheKey(other) = ResponseCacheKey(last.in)
             /\ last.out = Handle(other, EmptyMap, EmptyMap, EmptyMap, image_analyzer).out)
                => C28_SameFields(other, last.in)

=============================================================================
